---- MODULE Spec2Model ----
(***************************************************************************)
(* Media acquisition and audio identification pipeline of the music bot.   *)
(*                                                                         *)
(* The components, each with its own next-state relation:                  *)
(*   - the multi-strategy TikTok download loops                            *)
(*       (utils/downloader.py run_yt_dlp_tiktok_enhanced and               *)
(*        utils/tiktok_download.py download_tiktok_enhanced),              *)
(*   - the Instagram session singleton (utils/instagram_downloader.py),    *)
(*   - the identification chain (utils/recognizer.py identify_audio),      *)
(*   - the rate limiter and the handlers that start downloads,             *)
(*   - the size probe, the audio-only conversion, the platform detection   *)
(*     and the query cleaning (pure functions under a call and a return),  *)
(*   - run_yt_dlp under the link handler and its failure classification,   *)
(*   - the rate limiter alone over several moves of the clock,             *)
(*   - the upload loop of the link handler.                                *)
(* Coroutines are cut at their await points; what runs between two awaits  *)
(* is one action.  External processes and services are the environment:    *)
(* their outcomes are chosen with \E.                                      *)
(***************************************************************************)
EXTENDS Integers, Sequences, FiniteSets, TLC

VARIABLES
    \* ---- multi-strategy download loops
    dl_impl,        \* which loop runs: "none", "enhanced", "modular"
    dl_pc,          \* "idle", "start", "purge", "running", "after", "done"
    dl_i,           \* loop index i of enumerate(strategies, 1)
    attempts,       \* strategy indices invoked so far, in order
    outcome,        \* how each invoked strategy ended (history)
    waits,          \* the wait_time of every backoff sleep, in order
    last_error,     \* the loop's last_error
    dl_result,      \* what the call returned or raised
    proc,           \* state of the process each strategy started
    files,          \* files in tmpdir
    purges,         \* number of --rm-cache-dir invocations
    \* ---- Instagram session
    creds,          \* INSTAGRAM_USERNAME / INSTAGRAM_PASSWORD: "unset" before
                    \* the process starts, then "present" or "missing"
    session_file,   \* instagram_session.json exists on disk
    singleton,      \* _instagram_downloader
    login_calls,    \* number of client.login invocations
    rq,             \* the download_instagram calls in flight
    first_use,      \* the first construction of the downloader (history)
    login_log,      \* how each client.login call ended, in order (history)
    \* ---- identification chain
    id_pc,          \* "idle", "convert", "match", "audd", "lookup",
                    \* "spotify", "done", "raised"
    id_in,          \* file_path, hint and the configured API keys
    id_st,          \* locals of identify_audio
    id_trace,       \* the external steps made, in order
    id_result,      \* the text identify_audio returned, and which step gave it
    \* ---- rate limiter and the handlers that start downloads
    now,            \* time.time(), in ticks
    advances,       \* how often the clock has moved
    requests,       \* RateLimiter.requests: user id -> request times
    hq,             \* the handler coroutines in flight
    verdict,        \* the last answer of is_allowed and the wait reported
    left_behind,    \* handlers that returned with their directory on disk
    \* ---- size probe
    pr_pc,          \* "idle", "running", "done"
    pr_in,          \* the platform of the url and the formats yt-dlp lists
    pr_out,         \* the dict check_video_size returned
    \* ---- audio-only conversion of an Instagram result
    cv_pc,          \* "idle", "extracting", "done", "raised"
    cv_in,          \* audio_only and the dict download_instagram returned
    cv_k,           \* place of the loop in result['paths']
    cv_log,         \* the paths handed to extract_audio_mp3, in order
    cv_audio,       \* audio_paths
    cv_out,         \* result['paths'] of the dict download_from_url returned
    \* ---- platform detection
    dp_pc,          \* "idle", "called", "done"
    dp_in,          \* the url, as scheme, host and the rest
    dp_out,         \* the tag detect_platform returned
    \* ---- catalog-query cleaning
    cq_pc,          \* "idle", "once", "twice"
    cq_in,          \* the text passed to _clean_query
    cq_once,        \* _clean_query(text)
    cq_twice,       \* _clean_query(_clean_query(text))
    \* ---- run_yt_dlp under the link handler, two runs side by side
    yt_pc,          \* per run: "idle", "downloading", "editing_try",
                    \* "editing_except", "uploading", "sleeping", "done"
    yt_in,          \* platform, what the downloader process did, whether
                    \* Telegram refuses edits, and the stderr text of each run
    yt_out,         \* per run: what run_yt_dlp returned or raised
    yt_trace,       \* per run: the control actions made, in order
    yt_shown,       \* per run: the text the status message was last set to
    yt_escaped,     \* per run: an exception left the handler
    \* ---- the rate limiter alone, over a longer stretch of time
    wn_now,         \* time.time(), in ticks
    wn_adv,         \* how often the clock has moved
    wn_requests,    \* rate_limiter.requests
    wn_calls,       \* per user: the is_allowed calls made
    wn_log,         \* per user: the times of the allowed calls (history)
    wn_last,        \* what the last is_allowed call returned
    \* ---- the upload loop of the link handler
    up_pc,          \* "idle", "photo", "editing", "compressing", "notice",
                    \* "video", "done", "escaped"
    up_in,          \* the downloaded files: extension and size
    up_k,           \* place of the loop in paths
    up_cur,         \* file_path of the video about to be sent
    up_log          \* what was sent or said for which file, in order

dlvars == <<dl_impl, dl_pc, dl_i, attempts, outcome, waits, last_error,
            dl_result, proc, files, purges>>

igvars == <<creds, session_file, singleton, login_calls, rq, first_use,
            login_log>>

idvars == <<id_pc, id_in, id_st, id_trace, id_result>>

rlvars == <<now, advances, requests, hq, verdict, left_behind>>

prvars == <<pr_pc, pr_in, pr_out>>

cvvars == <<cv_pc, cv_in, cv_k, cv_log, cv_audio, cv_out>>

dpvars == <<dp_pc, dp_in, dp_out>>

cqvars == <<cq_pc, cq_in, cq_once, cq_twice>>

ytvars == <<yt_pc, yt_in, yt_out, yt_trace, yt_shown, yt_escaped>>

wnvars == <<wn_now, wn_adv, wn_requests, wn_calls, wn_log, wn_last>>

upvars == <<up_pc, up_in, up_k, up_cur, up_log>>

vars ==
    <<dlvars, igvars, idvars, rlvars, prvars, cvvars, dpvars, cqvars, ytvars,
      wnvars, upvars>>

\* the variables a step of the download loops leaves alone
not_dl ==
    <<igvars, idvars, rlvars, prvars, cvvars, dpvars, cqvars, ytvars, wnvars,
      upvars>>

\* the variables a step of the Instagram session leaves alone
not_ig ==
    <<dlvars, idvars, rlvars, prvars, cvvars, dpvars, cqvars, ytvars, wnvars,
      upvars>>

\* the variables a step of the identification chain leaves alone
not_id ==
    <<dlvars, igvars, rlvars, prvars, cvvars, dpvars, cqvars, ytvars, wnvars,
      upvars>>

\* the variables a step of the limiter and its handlers leaves alone
not_rl ==
    <<dlvars, igvars, idvars, prvars, cvvars, dpvars, cqvars, ytvars, wnvars,
      upvars>>

\* the variables a step of the size probe leaves alone
not_pr ==
    <<dlvars, igvars, idvars, rlvars, cvvars, dpvars, cqvars, ytvars, wnvars,
      upvars>>

\* the variables a step of the audio-only conversion leaves alone
not_cv ==
    <<dlvars, igvars, idvars, rlvars, prvars, dpvars, cqvars, ytvars, wnvars,
      upvars>>

\* the variables a step of the platform detection leaves alone
not_dp ==
    <<dlvars, igvars, idvars, rlvars, prvars, cvvars, cqvars, ytvars, wnvars,
      upvars>>

\* the variables a step of the query cleaning leaves alone
not_cq ==
    <<dlvars, igvars, idvars, rlvars, prvars, cvvars, dpvars, ytvars, wnvars,
      upvars>>

\* the variables a step of a run_yt_dlp run leaves alone
not_yt ==
    <<dlvars, igvars, idvars, rlvars, prvars, cvvars, dpvars, cqvars, wnvars,
      upvars>>

\* the variables a step of the limiter alone leaves alone
not_wn ==
    <<dlvars, igvars, idvars, rlvars, prvars, cvvars, dpvars, cqvars, ytvars,
      upvars>>

\* the variables a step of the upload loop leaves alone
not_up ==
    <<dlvars, igvars, idvars, rlvars, prvars, cvvars, dpvars, cqvars, ytvars,
      wnvars>>

(***************************************************************************)
(* Strings                                                                 *)
(*                                                                         *)
(* A string is the sequence of its characters.  An emoji that opens a      *)
(* message is written "*".                                                 *)
(***************************************************************************)

UpperChars ==
    << "A", "B", "C", "D", "E", "F", "G", "H", "I", "J", "K", "L", "M",
       "N", "O", "P", "Q", "R", "S", "T", "U", "V", "W", "X", "Y", "Z" >>

LowerChars ==
    << "a", "b", "c", "d", "e", "f", "g", "h", "i", "j", "k", "l", "m",
       "n", "o", "p", "q", "r", "s", "t", "u", "v", "w", "x", "y", "z" >>

\* str.lower() of one character (and what re.I compares)
Lower(c) ==
    IF \E k \in DOMAIN UpperChars : UpperChars[k] = c
      THEN LowerChars[CHOOSE k \in DOMAIN UpperChars : UpperChars[k] = c]
      ELSE c

LowerStr(s) == [k \in DOMAIN s |-> Lower(s[k])]

\* s[a:] for a 1-based position a
From(s, a) == SubSeq(s, a, Len(s))

\* needle is a prefix of s
StartsWith(s, needle) ==
    /\ Len(needle) <= Len(s)
    /\ SubSeq(s, 1, Len(needle)) = needle

\* Python's `needle in s`
Contains(needle, s) ==
    \E k \in 1..(Len(s) - Len(needle) + 1) :
        SubSeq(s, k, k + Len(needle) - 1) = needle

\* s.rfind(c) as a 1-based position, 0 when c does not occur
RFind(s, c) ==
    IF \E k \in DOMAIN s : s[k] = c
      THEN CHOOSE k \in DOMAIN s :
               s[k] = c /\ \A m \in DOMAIN s : s[m] = c => m <= k
      ELSE 0

Whitespace == {" ", "\t", "\n"}

\* str.strip()
RECURSIVE LStrip(_)
LStrip(s) ==
    IF s # <<>> /\ s[1] \in Whitespace THEN LStrip(Tail(s)) ELSE s

RECURSIVE RStrip(_)
RStrip(s) ==
    IF s # <<>> /\ s[Len(s)] \in Whitespace
      THEN RStrip(SubSeq(s, 1, Len(s) - 1))
      ELSE s

Strip(s) == RStrip(LStrip(s))

\* the characters of s after its longest prefix made of characters of cs
RECURSIVE DropWhileIn(_, _)
DropWhileIn(s, cs) ==
    IF s # <<>> /\ s[1] \in cs THEN DropWhileIn(Tail(s), cs) ELSE s

(***************************************************************************)
(* Multi-strategy download loops                                           *)
(***************************************************************************)

\* downloader.py: the strategies list of run_yt_dlp_tiktok_enhanced
strategies ==
    << [name |-> "API v1 (US East)",   timeout |-> 30, retries |-> 5],
       [name |-> "API v2 (Singapore)", timeout |-> 45, retries |-> 8],
       [name |-> "API v3 (US East 2)", timeout |-> 60, retries |-> 10],
       [name |-> "Mobile API",         timeout |-> 90, retries |-> 15] >>

\* tiktok_download.py: the strategies list of download_tiktok_enhanced, each
\* function with the 'method' it stamps on its result
strategy_functions ==
    << [fn |-> "_strategy_api_with_cookies",  method |-> "api_with_cookies"],
       [fn |-> "_strategy_clear_cache_retry", method |-> "cache_cleared"],
       [fn |-> "_strategy_mobile_api",        method |-> "mobile_api"],
       [fn |-> "_strategy_basic_download",    method |-> "basic"] >>

NumStrategies(impl) ==
    IF impl = "enhanced" THEN Len(strategies) ELSE Len(strategy_functions)

MethodName(impl, i) ==
    IF impl = "enhanced" THEN strategies[i].name ELSE strategy_functions[i].method

StrategyIdx == 1..4

\* last_error = None
NoError == [idx |-> 0, kind |-> "None"]

ErrorOf(i, kind) == [idx |-> i, kind |-> kind]

NoResult == [returned |-> FALSE, success |-> FALSE, method |-> "",
             paths |-> {}, error |-> NoError]

\* os.listdir(tmpdir) filtered by `not f.startswith('.')`
VisibleFiles(fs) == { f \in fs : ~f.hidden }

\* `for i, strategy in enumerate(strategies, 1)`: the index after i
NextIndexSkipping(i) == i + 2
NextIndex(i) == i + 1

\* a backoff that does not grow with i
wait_time_flat(i) == 3

\* downloader.py: wait_time = i * 3
wait_time_enhanced(i) == i * 3

\* tiktok_download.py: wait_time = i * 2
wait_time_modular(i) == i * 2

\* the result dict of a strategy that found files
SuccessResult(impl, i, fs) ==
    [returned |-> TRUE, success |-> TRUE, method |-> MethodName(impl, i),
     paths |-> VisibleFiles(fs), error |-> NoError]

\* downloader.py raises RuntimeError(... Last error: {last_error});
\* tiktok_download.py returns {'success': False, 'error': ... last_error}
FailureResult(le) ==
    [returned |-> TRUE, success |-> FALSE, method |-> "", paths |-> {},
     error |-> le]

DlInit ==
    /\ dl_impl = "none"
    /\ dl_pc = "idle"
    /\ dl_i = 0
    /\ attempts = <<>>
    /\ outcome = <<>>
    /\ waits = <<>>
    /\ last_error = NoError
    /\ dl_result = NoResult
    /\ proc = [j \in StrategyIdx |-> "none"]
    /\ files = {}
    /\ purges = 0

\* ---- run_yt_dlp_tiktok_enhanced (downloader.py)

\* the call: last_error = None, and strategy 1's command is started under
\* asyncio.wait_for(_run(cmd), timeout + 30)
EnhCall ==
    /\ dl_pc = "idle"
    /\ dl_impl' = "enhanced"
    /\ dl_i' = 1
    /\ attempts' = Append(attempts, 1)
    /\ proc' = [proc EXCEPT ![1] = "running"]
    /\ dl_pc' = "running"
    /\ UNCHANGED <<outcome, waits, last_error, dl_result, files, purges>>
    /\ UNCHANGED not_dl

\* what follows a strategy that did not return: the backoff sleep when i is
\* not the last index, the final raise otherwise
EnhNotSucceeded(le, how) ==
    /\ outcome' = Append(outcome, how)
    /\ last_error' = le
    /\ IF dl_i < NumStrategies("enhanced")
          THEN /\ waits' = Append(waits, wait_time_enhanced(dl_i))
               /\ dl_pc' = "sleeping"
               /\ dl_result' = dl_result
          ELSE /\ waits' = waits
               /\ dl_pc' = "done"
               /\ dl_result' = FailureResult(le)

\* _run returns or raises: proc.communicate() ended with the exit code
EnhExit(code) ==
    /\ dl_impl = "enhanced" /\ dl_pc = "running"
    /\ proc[dl_i] = "running"
    /\ proc' = [proc EXCEPT ![dl_i] = IF code = 0 THEN "exit0" ELSE "exit1"]
    /\ IF code # 0
          THEN \* RuntimeError("Command failed"), caught by `except Exception`
               EnhNotSucceeded(ErrorOf(dl_i, "failed"), "failed")
          ELSE IF VisibleFiles(files) # {}
                 THEN /\ dl_result' = SuccessResult("enhanced", dl_i, files)
                      /\ outcome' = Append(outcome, "ok")
                      /\ dl_pc' = "done"
                      /\ UNCHANGED <<waits, last_error>>
                 ELSE \* no file and no exception: last_error is not assigned
                      EnhNotSucceeded(last_error, "nofiles")
    /\ UNCHANGED <<dl_impl, dl_i, attempts, files, purges>>
    /\ UNCHANGED not_dl

\* asyncio.wait_for expires: the _run coroutine is cancelled, TimeoutError is
\* caught; nothing terminates the process
EnhTimeout ==
    /\ dl_impl = "enhanced" /\ dl_pc = "running"
    /\ proc[dl_i] = "running"
    /\ EnhNotSucceeded(ErrorOf(dl_i, "timeout"), "timeout")
    /\ UNCHANGED <<dl_impl, dl_i, attempts, proc, files, purges>>
    /\ UNCHANGED not_dl

\* asyncio.sleep(wait_time) returns: the cache purge when i == 2, the next
\* strategy's command otherwise
EnhWake ==
    /\ dl_impl = "enhanced" /\ dl_pc = "sleeping"
    /\ IF dl_i = 2
          THEN /\ purges' = purges + 1
               /\ dl_pc' = "purging"
               /\ UNCHANGED <<dl_i, attempts, proc>>
          ELSE /\ dl_i' = NextIndex(dl_i)
               /\ attempts' = Append(attempts, dl_i')
               /\ proc' = [proc EXCEPT ![dl_i'] = "running"]
               /\ dl_pc' = "running"
               /\ UNCHANGED purges
    /\ UNCHANGED <<dl_impl, outcome, waits, last_error, dl_result, files>>
    /\ UNCHANGED not_dl

\* the purge command ends, its failure swallowed by the bare except; the
\* next strategy's command is started
EnhPurged(ok) ==
    /\ dl_impl = "enhanced" /\ dl_pc = "purging"
    /\ ok \in BOOLEAN
    /\ dl_i' = NextIndex(dl_i)
    /\ attempts' = Append(attempts, dl_i')
    /\ proc' = [proc EXCEPT ![dl_i'] = "running"]
    /\ dl_pc' = "running"
    /\ UNCHANGED <<dl_impl, outcome, waits, last_error, dl_result, files, purges>>
    /\ UNCHANGED not_dl

\* ---- download_tiktok_enhanced (tiktok_download.py)

\* the call: last_error = None, strategy 1 is invoked and starts its command
\* under _run_ytdlp_command
ModCall ==
    /\ dl_pc = "idle"
    /\ dl_impl' = "modular"
    /\ dl_i' = 1
    /\ attempts' = Append(attempts, 1)
    /\ proc' = [proc EXCEPT ![1] = "running"]
    /\ dl_pc' = "running"
    /\ UNCHANGED <<outcome, waits, last_error, dl_result, files, purges>>
    /\ UNCHANGED not_dl

\* the strategy raised: `except Exception as e` sets last_error and, when i
\* is not the last index, sleeps; after the last index the failure dict is
\* returned
ModRaised(le, how) ==
    /\ outcome' = Append(outcome, how)
    /\ last_error' = le
    /\ IF dl_i < NumStrategies("modular")
          THEN /\ waits' = Append(waits, wait_time_modular(dl_i))
               /\ dl_pc' = "sleeping"
               /\ dl_result' = dl_result
          ELSE /\ waits' = waits
               /\ dl_pc' = "done"
               /\ dl_result' = FailureResult(le)

\* _run_ytdlp_command returns stdout and stderr whatever the exit code; the
\* strategy lists tmpdir and returns success or raises "No files downloaded"
ModExit(code) ==
    /\ dl_impl = "modular" /\ dl_pc = "running"
    /\ proc[dl_i] = "running"
    /\ proc' = [proc EXCEPT ![dl_i] = IF code = 0 THEN "exit0" ELSE "exit1"]
    /\ IF VisibleFiles(files) # {}
          THEN /\ dl_result' = SuccessResult("modular", dl_i, files)
               /\ outcome' = Append(outcome, "ok")
               /\ dl_pc' = "done"
               /\ UNCHANGED <<waits, last_error>>
          ELSE ModRaised(ErrorOf(dl_i, "nofiles"), "nofiles")
    /\ UNCHANGED <<dl_impl, dl_i, attempts, files, purges>>
    /\ UNCHANGED not_dl

\* wait_for(proc.communicate(), timeout=120) expires: proc.kill(), then
\* RuntimeError("Download timed out after 120 seconds")
ModTimeout ==
    /\ dl_impl = "modular" /\ dl_pc = "running"
    /\ proc[dl_i] = "running"
    /\ proc' = [proc EXCEPT ![dl_i] = "killed"]
    /\ ModRaised(ErrorOf(dl_i, "timeout"), "timeout")
    /\ UNCHANGED <<dl_impl, dl_i, attempts, files, purges>>
    /\ UNCHANGED not_dl

\* asyncio.sleep(wait_time) returns and the next strategy is invoked:
\* _strategy_clear_cache_retry first runs the cache purge, the others start
\* their command at once
ModWake ==
    /\ dl_impl = "modular" /\ dl_pc = "sleeping"
    /\ dl_i' = NextIndex(dl_i)
    /\ attempts' = Append(attempts, dl_i')
    /\ IF strategy_functions[dl_i'].fn = "_strategy_clear_cache_retry"
          THEN /\ purges' = purges + 1
               /\ dl_pc' = "purging"
               /\ UNCHANGED proc
          ELSE /\ proc' = [proc EXCEPT ![dl_i'] = "running"]
               /\ dl_pc' = "running"
               /\ UNCHANGED purges
    /\ UNCHANGED <<dl_impl, outcome, waits, last_error, dl_result, files>>
    /\ UNCHANGED not_dl

\* the purge command ends (any failure swallowed: "Cache clear not
\* critical") and the strategy sleeps 3 seconds
ModPurged(ok) ==
    /\ dl_impl = "modular" /\ dl_pc = "purging"
    /\ ok \in BOOLEAN
    /\ dl_pc' = "pausing"
    /\ UNCHANGED <<dl_impl, dl_i, attempts, outcome, waits, last_error,
                   dl_result, proc, files, purges>>
    /\ UNCHANGED not_dl

\* asyncio.sleep(3) returns and the strategy starts its download command
ModPaused ==
    /\ dl_impl = "modular" /\ dl_pc = "pausing"
    /\ proc' = [proc EXCEPT ![dl_i] = "running"]
    /\ dl_pc' = "running"
    /\ UNCHANGED <<dl_impl, dl_i, attempts, outcome, waits, last_error,
                   dl_result, files, purges>>
    /\ UNCHANGED not_dl

\* ---- the external downloader processes

\* a running yt-dlp process writes a file into tmpdir: its output, a .part
\* file, or a dot-file
ProcWrite(j, hidden) ==
    /\ proc[j] = "running"
    /\ [by |-> j, hidden |-> hidden] \notin files
    /\ files' = files \cup {[by |-> j, hidden |-> hidden]}
    /\ UNCHANGED <<dl_impl, dl_pc, dl_i, attempts, outcome, waits, last_error,
                   dl_result, proc, purges>>
    /\ UNCHANGED not_dl

\* a process that nothing awaits any more ends on its own
OrphanExit(j, code) ==
    /\ proc[j] = "running"
    /\ ~(dl_pc = "running" /\ dl_i = j)
    /\ proc' = [proc EXCEPT ![j] = IF code = 0 THEN "exit0" ELSE "exit1"]
    /\ UNCHANGED <<dl_impl, dl_pc, dl_i, attempts, outcome, waits, last_error,
                   dl_result, files, purges>>
    /\ UNCHANGED not_dl

DlNext ==
    \/ EnhCall
    \/ \E code \in {0, 1} : EnhExit(code)
    \/ EnhTimeout
    \/ EnhWake
    \/ \E ok \in BOOLEAN : EnhPurged(ok)
    \/ ModCall
    \/ \E code \in {0, 1} : ModExit(code)
    \/ ModTimeout
    \/ ModWake
    \/ \E ok \in BOOLEAN : ModPurged(ok)
    \/ ModPaused
    \/ \E j \in StrategyIdx, hidden \in BOOLEAN : ProcWrite(j, hidden)
    \/ \E j \in StrategyIdx, code \in {0, 1} : OrphanExit(j, code)

(***************************************************************************)
(* Instagram session singleton                                             *)
(***************************************************************************)

\* number of download_instagram calls of one run
MaxRequests == 2

Requests == 1..MaxRequests

\* _instagram_downloader: Optional[InstagramDownloader] = None
NoDownloader == [exists |-> FALSE, is_authenticated |-> FALSE]

\* an InstagramDownloader instance with its is_authenticated flag
Downloader(auth) == [exists |-> TRUE, is_authenticated |-> auth]

LoginOutcomes == {"ok", "challenge", "login_required", "error"}

\* 'Private account - Follow the account with your bot credentials first'
PrivateAccountText == "Private account - Follow the account"

\* str(e) of any other exception
OtherErrorText == "str(e)"

\* download_instagram has not returned
NoIgResult == [raised |-> FALSE, success |-> FALSE, paths |-> 0,
               error |-> "none"]

\* nothing has constructed the downloader yet
NoFirstUse == [made |-> FALSE, by |-> 0, blob |-> FALSE, live |-> FALSE,
               login |-> "none", persisted |-> FALSE, auth |-> FALSE,
               raised |-> FALSE, logins |-> 0]

IgInit ==
    /\ creds = "unset"
    /\ session_file = FALSE
    /\ singleton = NoDownloader
    /\ login_calls = 0
    /\ rq = [r \in Requests |->
               [pc |-> "idle", kind |-> "none", attempts |-> 0,
                met |-> "none", fetched |-> FALSE, result |-> NoIgResult]]
    /\ first_use = NoFirstUse
    /\ login_log = << >>

\* the process starts: the environment holds the credentials or not, and a
\* session blob of an earlier run is on disk or not
IgBoot(c, blob) ==
    /\ creds = "unset"
    /\ c \in {"present", "missing"}
    /\ creds' = c
    /\ session_file' = blob
    /\ UNCHANGED <<singleton, login_calls, rq, first_use, login_log>>
    /\ UNCHANGED not_ig

\* a request reaches download_instagram; its url names a story, a reel or a
\* post
IgRequest(r, kind) ==
    /\ creds # "unset"
    /\ rq[r].pc = "idle"
    /\ rq' = [rq EXCEPT ![r].pc = "called", ![r].kind = kind]
    /\ UNCHANGED <<creds, session_file, singleton, login_calls, first_use,
                   login_log>>
    /\ UNCHANGED not_ig

\* _setup_authentication without its os.remove: the blob that failed the
\* liveness call stays on disk when the login fails
setup_authentication_stale(blob, live, login, dumped) ==
    IF blob /\ live
      THEN [raised |-> FALSE, auth |-> TRUE, blob |-> TRUE, logins |-> 0]
      ELSE IF login # "ok"
             THEN [raised |-> TRUE, auth |-> FALSE, blob |-> blob, logins |-> 1]
             ELSE [raised |-> ~dumped, auth |-> dumped, blob |-> dumped,
                   logins |-> 1]

\* every stored blob passes for live and no login is spared
setup_authentication_relogin(blob, live, login, dumped) ==
    IF login # "ok"
      THEN [raised |-> TRUE, auth |-> FALSE, blob |-> FALSE, logins |-> 1]
      ELSE [raised |-> ~dumped, auth |-> dumped, blob |-> dumped, logins |-> 1]

\* _setup_authentication: what the constructor leaves behind.  `live` is
\* the outcome of load_settings + get_timeline_feed on the stored blob,
\* `login` of client.login, `dumped` of dump_settings.  The result names the
\* instance built (none when the constructor raised), the blob on disk and
\* the number of logins made.
setup_authentication(blob, live, login, dumped) ==
    IF blob /\ live
      THEN [raised |-> FALSE, auth |-> TRUE, blob |-> TRUE, logins |-> 0]
      ELSE \* an invalid blob was removed; fresh login
           IF login # "ok"
             THEN [raised |-> TRUE, auth |-> FALSE, blob |-> FALSE, logins |-> 1]
             ELSE IF dumped
                    THEN [raised |-> FALSE, auth |-> TRUE, blob |-> TRUE,
                          logins |-> 1]
                    ELSE [raised |-> TRUE, auth |-> FALSE, blob |-> FALSE,
                          logins |-> 1]

\* InstagramDownloader.__init__: authentication is set up only with both
\* credentials; without them the instance is built unauthenticated
construct(c, blob, live, login, dumped) ==
    IF c = "present"
      THEN setup_authentication(blob, live, login, dumped)
      ELSE [raised |-> FALSE, auth |-> FALSE, blob |-> blob, logins |-> 0]

\* download_instagram's `except Exception`: RuntimeError to the caller
IgRaised == [NoIgResult EXCEPT !.raised = TRUE, !.error = OtherErrorText]

\* download_instagram up to its first await: get_instagram_downloader()
\* runs on the event loop with no suspension point, the constructor and its
\* blocking login included; an exception of the constructor leaves the
\* global None and download_instagram re-raises it as RuntimeError
IgGetDownloader(r, live, login, dumped) ==
    /\ rq[r].pc = "called"
    /\ IF singleton.exists
          THEN /\ rq' = [rq EXCEPT ![r].pc = "executor"]
               /\ UNCHANGED <<session_file, singleton, login_calls, first_use,
                              login_log>>
          ELSE LET made == construct(creds, session_file, live, login, dumped)
               IN /\ session_file' = made.blob
                  /\ login_calls' = login_calls + made.logins
                  /\ login_log' = IF made.logins = 1
                                    THEN Append(login_log, login)
                                    ELSE login_log
                  /\ first_use' =
                       IF first_use.made THEN first_use
                       ELSE [made |-> TRUE, by |-> r,
                             blob |-> session_file,
                             live |-> session_file /\ live,
                             login |-> IF made.logins = 1 THEN login
                                       ELSE "none",
                             persisted |-> made.blob, auth |-> made.auth,
                             raised |-> made.raised, logins |-> made.logins]
                  /\ IF made.raised
                        THEN /\ singleton' = NoDownloader
                             /\ rq' = [rq EXCEPT ![r].pc = "done",
                                                 ![r].result = IgRaised]
                        ELSE /\ singleton' = Downloader(made.auth)
                             /\ rq' = [rq EXCEPT ![r].pc = "executor"]
    /\ UNCHANGED creds
    /\ UNCHANGED not_ig

\* what the content handler can meet: the files, privacy-restricted content
\* (PrivateError), a session that is no longer valid (LoginRequired), a
\* story that is not among the owner's stories (ValueError), any other
\* exception, or os.makedirs failing before the try
ContentOutcomes ==
    {"ok", "private", "login_required", "notfound", "error", "makedirs"}

\* the item is fetched whatever the search among the stories found
fetch_called_unsearched(met, at_download) ==
    met \in {"ok", "notfound"}
      \/ (met \in {"private", "login_required", "error"} /\ at_download)

\* whether the handler reached its photo_download, video_download,
\* album_download or story_download call: it did when it returned the
\* files, it did not when makedirs failed or the story was not found, and an
\* exception was raised by that call (at_download) or by a call before it
fetch_called(met, at_download) ==
    met = "ok"
      \/ (met \in {"private", "login_required", "error"} /\ at_download)

\* download_content with the private-content branch missing
download_content_generic(kind, met) ==
    IF met = "makedirs" THEN IgRaised
    ELSE IF met = "ok"
      THEN [raised |-> FALSE, success |-> TRUE,
            paths |-> IF kind = "post" THEN 2 ELSE 1, error |-> "none"]
    ELSE [raised |-> FALSE, success |-> FALSE, paths |-> 0,
          error |-> OtherErrorText]

\* download_content: _download_story, _download_reel and _download_post log
\* and re-raise; PrivateError and every other exception become a result
\* dict.  paths counts the files (a post may be an album).
download_content(kind, met) ==
    IF met = "makedirs" THEN IgRaised
    ELSE IF met = "ok"
      THEN [raised |-> FALSE, success |-> TRUE,
            paths |-> IF kind = "post" THEN 2 ELSE 1, error |-> "none"]
    ELSE IF met = "private"
      THEN [raised |-> FALSE, success |-> FALSE, paths |-> 0,
            error |-> PrivateAccountText]
    ELSE [raised |-> FALSE, success |-> FALSE, paths |-> 0,
          error |-> OtherErrorText]

\* ig.download_content(url, tmpdir) returns from the executor thread and
\* download_instagram returns its dict, or re-raises
IgDownloadContent(r, met, at_download) ==
    /\ rq[r].pc = "executor"
    /\ met = "notfound" => rq[r].kind = "story"
    /\ rq' = [rq EXCEPT ![r].pc = "done",
                        ![r].attempts = @ + 1,
                        ![r].met = met,
                        ![r].fetched = fetch_called(met, at_download),
                        ![r].result = download_content(rq[r].kind, met)]
    /\ UNCHANGED <<creds, session_file, singleton, login_calls, first_use,
                   login_log>>
    /\ UNCHANGED not_ig

IgNext ==
    \/ \E c \in {"present", "missing"}, blob \in BOOLEAN : IgBoot(c, blob)
    \/ \E r \in Requests, kind \in {"story", "reel", "post"} : IgRequest(r, kind)
    \/ \E r \in Requests, live \in BOOLEAN, login \in LoginOutcomes,
          dumped \in BOOLEAN : IgGetDownloader(r, live, login, dumped)
    \/ \E r \in Requests, met \in ContentOutcomes, at_download \in BOOLEAN :
          IgDownloadContent(r, met, at_download)

(***************************************************************************)
(* Identification chain (utils/recognizer.py)                              *)
(***************************************************************************)

\* the alternation of the noise pattern of _clean_query, in its order
NoiseWords ==
    << << "t", "m", "p" >>,
       << "r", "e", "c", "o", "r", "d" >>,
       << "v", "o", "i", "c", "e" >>,
       << "a", "u", "d", "i", "o" >>,
       << "v", "i", "d", "e", "o" >>,
       << "m", "i", "x" >>,
       << "f", "i", "l", "e" >>,
       << "m", "u", "s", "i", "c" >>,
       << "s", "o", "n", "g" >> >>

\* os.path.splitext(text)[0]: the extension is cut at the last dot of the
\* last path component, unless only dots precede it there
SplitextRoot(p) ==
    LET sepIndex == RFind(p, "/")
        dotIndex == RFind(p, ".")
    IN IF dotIndex > sepIndex
            /\ \E k \in (sepIndex + 1)..(dotIndex - 1) : p[k] # "."
         THEN SubSeq(p, 1, dotIndex - 1)
         ELSE p

\* re.sub(r"(tmp|record|...|song)", "", base, flags=re.I): leftmost
\* matches, left to right, each deleted
RECURSIVE RemoveNoise(_)
RemoveNoise(s) ==
    IF s = <<>> THEN <<>>
    ELSE IF \E k \in DOMAIN NoiseWords : StartsWith(LowerStr(s), NoiseWords[k])
      THEN LET k == CHOOSE k \in DOMAIN NoiseWords :
                      /\ StartsWith(LowerStr(s), NoiseWords[k])
                      /\ \A m \in DOMAIN NoiseWords :
                            StartsWith(LowerStr(s), NoiseWords[m]) => k <= m
           IN RemoveNoise(From(s, Len(NoiseWords[k]) + 1))
      ELSE <<s[1]>> \o RemoveNoise(Tail(s))

BracketChars == {"[", "]", "(", ")", "{", "}", "_", "-"}

\* re.sub(r"[\[\]\(\)\{\}_-]+", " ", base)
RECURSIVE ReplaceBrackets(_)
ReplaceBrackets(s) ==
    IF s = <<>> THEN <<>>
    ELSE IF s[1] \in BracketChars
      THEN <<" ">> \o ReplaceBrackets(DropWhileIn(s, BracketChars))
      ELSE <<s[1]>> \o ReplaceBrackets(Tail(s))

\* re.sub(r"\s{2,}", " ", base)
RECURSIVE CollapseSpaces(_)
CollapseSpaces(s) ==
    IF s = <<>> THEN <<>>
    ELSE IF Len(s) >= 2 /\ s[1] \in Whitespace /\ s[2] \in Whitespace
      THEN <<" ">> \o CollapseSpaces(DropWhileIn(s, Whitespace))
      ELSE <<s[1]>> \o CollapseSpaces(Tail(s))

\* _clean_query
clean_query(text) ==
    IF text = <<>> THEN <<>>
    ELSE Strip(CollapseSpaces(ReplaceBrackets(RemoveNoise(SplitextRoot(text)))))

\* ---- the texts of recognizer.py

\* search_spotify: `if not spotify`
SpotifyNotConfigured ==
    << "*", " ", "S", "p", "o", "t", "i", "f", "y", " ", "n", "o", "t",
       " ", "c", "o", "n", "f", "i", "g", "u", "r", "e", "d", "." >>

SpotifyNoQuery ==
    << "*", " ", "N", "o", " ", "S", "p", "o", "t", "i", "f", "y", " ",
       "q", "u", "e", "r", "y", " ", "a", "v", "a", "i", "l", "a", "b",
       "l", "e", "." >>

SpotifyNoMatches ==
    << "*", " ", "N", "o", " ", "S", "p", "o", "t", "i", "f", "y", " ",
       "m", "a", "t", "c", "h", "e", "s", " ", "f", "o", "u", "n", "d",
       "." >>

SpotifyHeader ==
    << "*", " ", "<", "b", ">", "C", "l", "o", "s", "e", "s", "t", " ",
       "m", "a", "t", "c", "h", "e", "s", " ", "o", "n", " ", "S", "p",
       "o", "t", "i", "f", "y", ":", "<", "/", "b", ">", "\n", "\n" >>

SpotifyErrorPrefix ==
    << "*", " ", "S", "p", "o", "t", "i", "f", "y", " ", "s", "e", "a",
       "r", "c", "h", " ", "e", "r", "r", "o", "r", ":", " " >>

\* identify_with_audd: `if not AUDD_API_KEY`
AuddNotConfigured ==
    << "*", " ", "A", "u", "d", "d", ".", "i", "o", " ", "n", "o", "t",
       " ", "c", "o", "n", "f", "i", "g", "u", "r", "e", "d", "." >>

AuddNoMatch ==
    << "*", " ", "N", "o", " ", "m", "a", "t", "c", "h", " ", "f", "o",
       "u", "n", "d", " ", "v", "i", "a", " ", "A", "u", "d", "d", ".",
       "i", "o", "." >>

AuddErrorPrefix ==
    << "*", " ", "A", "u", "d", "d", ".", "i", "o", " ", "e", "r", "r",
       "o", "r", ":", " " >>

ListenOnSpotify ==
    << "'", ">", "L", "i", "s", "t", "e", "n", " ", "o", "n", " ", "S",
       "p", "o", "t", "i", "f", "y", "<", "/", "a", ">" >>

ViewOnMusicBrainz ==
    << "'", ">", "V", "i", "e", "w", " ", "o", "n", " ", "M", "u", "s",
       "i", "c", "B", "r", "a", "i", "n", "z", "<", "/", "a", ">" >>

MusicBrainzUrl ==
    << "h", "t", "t", "p", "s", ":", "/", "/", "m", "u", "s", "i", "c",
       "b", "r", "a", "i", "n", "z", ".", "o", "r", "g", "/", "r", "e",
       "c", "o", "r", "d", "i", "n", "g", "/" >>

CrashPrefix ==
    << "*", " ", "I", "d", "e", "n", "t", "i", "f", "i", "c", "a", "t",
       "i", "o", "n", " ", "f", "a", "i", "l", "e", "d", ",", " ", "b",
       "u", "t", " ", "h", "e", "r", "e", " ", "a", "r", "e", " ", "S",
       "p", "o", "t", "i", "f", "y", " ", "s", "u", "g", "g", "e", "s",
       "t", "i", "o", "n", "s", ":", "\n", "\n" >>

\* the needles of `"No match" not in audd_result and "error" not in audd_result`
NoMatchNeedle ==
    << "N", "o", " ", "m", "a", "t", "c", "h" >>

ErrorNeedle ==
    << "e", "r", "r", "o", "r" >>

\* f"* <b>{artist}</b> ~ {title}"
BoldArtistTitle(artist, title) ==
    <<"*", " ", "<", "b", ">">> \o artist \o <<"<", "/", "b", ">", " ", "~", " ">>
        \o title

\* f"\n* <a href='{link}" followed by the closing words
LinkLine(link, closing) ==
    <<"\n", "*", " ", "<", "a", " ", "h", "r", "e", "f", "=", "'">> \o link
        \o closing

\* ---- what the callers and the services can supply

ArtistX ==
    << "A", "r", "t", "i", "s", "t", " ", "X" >>

TitleY ==
    << "T", "i", "t", "l", "e", " ", "Y" >>

Abc123 ==
    << "a", "b", "c", "1", "2", "3" >>

Mix ==
    << "m", "i", "x" >>

Song ==
    << "s", "o", "n", "g" >>

R2 ==
    << "r", "2" >>

HumanError ==
    << "H", "u", "m", "a", "n", " ", "e", "r", "r", "o", "r" >>

CanonArtist ==
    << "T", "h", "e", " ", "A", "r", "t", "i", "s", "t", " ", "X" >>

CanonTitle ==
    << "T", "i", "t", "l", "e", " ", "Y", " ", "(", "L", "i", "v", "e",
       ")" >>

SpotifyUrl ==
    << "h", "t", "t", "p", "s", ":", "/", "/", "o", "p", "e", "n", ".",
       "s", "p", "o", "t", "i", "f", "y", ".", "c", "o", "m", "/", "t",
       "r", "a", "c", "k", "/", "1" >>

\* str(e) of a failed request
ExcText ==
    << "C", "o", "n", "n", "e", "c", "t", "i", "o", "n", " ", "r", "e",
       "s", "e", "t" >>

\* a NamedTemporaryFile(suffix=".mp3") path
TmpFile ==
    << "/", "t", "m", "p", "/", "t", "m", "p", "a", "b", "1", "2", ".",
       "m", "p", "3" >>

MixFile ==
    << "/", "t", "m", "p", "/", "m", "i", "x", ".", "m", "p", "3" >>

HintText ==
    << "2", "1", " ", "S", "a", "v", "a", "g", "e", " ", "r", "e", "d",
       "r", "u", "m" >>

\* hint=None (an empty hint is None too: the handlers pass `... or None`)
NoHint == << >>

\* the scores of the fingerprint service, in hundredths
Scores == {0, 29, 30, 85}

\* `if score < 0.3`, in hundredths
Threshold == 30

\* candidates of one answer of the fingerprint service
MaxCandidates == 2

Candidates ==
    { [score |-> sc, rid |-> Abc123, title |-> TitleY, artist |-> ArtistX] :
        sc \in Scores }
    \cup
    { [score |-> sc, rid |-> R2, title |-> Song, artist |-> Mix] :
        sc \in Scores }

NoCandidate == [score |-> 0, rid |-> << >>, title |-> << >>, artist |-> << >>]

\* list(acoustid.match(...)): the candidates in the order of the answer
ResultLists ==
    UNION { [1..n -> Candidates] : n \in 0..MaxCandidates }

\* what the Audd.io request can end with
AuddOutcomes ==
    { [kind |-> "nomatch", artist |-> << >>, title |-> << >>, link |-> << >>],
      [kind |-> "error", artist |-> << >>, title |-> << >>, link |-> << >>],
      [kind |-> "match", artist |-> ArtistX, title |-> TitleY, link |-> << >>],
      [kind |-> "match", artist |-> ArtistX, title |-> TitleY,
       link |-> SpotifyUrl],
      [kind |-> "match", artist |-> ArtistX, title |-> HumanError,
       link |-> << >>] }

SpotifyOutcomes == {"items", "noitems", "raises"}

LookupOutcomes == {"full", "partial", "raises"}

\* os.path.basename(file_path)
Basename(path) == From(path, RFind(path, "/") + 1)

\* identify_with_audd: the text it returns; every exception of the request
\* is caught inside
identify_with_audd(key, out) ==
    IF ~key THEN AuddNotConfigured
    ELSE IF out.kind = "error" THEN AuddErrorPrefix \o ExcText
    ELSE IF out.kind = "nomatch" THEN AuddNoMatch
    ELSE IF out.link # << >>
      THEN BoldArtistTitle(out.artist, out.title)
               \o LinkLine(out.link, ListenOnSpotify)
      ELSE BoldArtistTitle(out.artist, out.title)

\* `"No match" not in audd_result and "error" not in audd_result`
AuddAccepted(text) ==
    ~Contains(NoMatchNeedle, text) /\ ~Contains(ErrorNeedle, text)

\* a search_spotify that lets the exception of spotify.search escape
search_spotify_uncaught(client, query, out) ==
    IF ~client
      THEN [raised |-> FALSE, searched |-> FALSE, text |-> SpotifyNotConfigured]
    ELSE IF clean_query(query) = << >>
      THEN [raised |-> FALSE, searched |-> FALSE, text |-> SpotifyNoQuery]
    ELSE IF out = "raises"
      THEN [raised |-> TRUE, searched |-> TRUE, text |-> << >>]
    ELSE IF out = "noitems"
      THEN [raised |-> FALSE, searched |-> TRUE, text |-> SpotifyNoMatches]
    ELSE [raised |-> FALSE, searched |-> TRUE,
          text |-> SpotifyHeader \o BoldArtistTitle(ArtistX, TitleY)
                       \o LinkLine(SpotifyUrl, ListenOnSpotify)
                       \o <<"\n", "\n">>]

\* a search_spotify without the `if not spotify` test: spotify.search on
\* None raises inside the try
search_spotify_unguarded(client, query, out) ==
    IF clean_query(query) = << >>
      THEN [raised |-> FALSE, searched |-> FALSE, text |-> SpotifyNoQuery]
    ELSE IF ~client \/ out = "raises"
      THEN [raised |-> FALSE, searched |-> TRUE,
            text |-> SpotifyErrorPrefix \o ExcText]
    ELSE IF out = "noitems"
      THEN [raised |-> FALSE, searched |-> TRUE, text |-> SpotifyNoMatches]
    ELSE [raised |-> FALSE, searched |-> TRUE,
          text |-> SpotifyHeader \o BoldArtistTitle(ArtistX, TitleY)
                       \o LinkLine(SpotifyUrl, ListenOnSpotify)
                       \o <<"\n", "\n">>]

\* search_spotify: whether it raised, whether spotify.search was called, and
\* the text it returned
search_spotify(client, query, out) ==
    IF ~client
      THEN [raised |-> FALSE, searched |-> FALSE, text |-> SpotifyNotConfigured]
    ELSE IF clean_query(query) = << >>
      THEN [raised |-> FALSE, searched |-> FALSE, text |-> SpotifyNoQuery]
    ELSE IF out = "raises"
      THEN [raised |-> FALSE, searched |-> TRUE,
            text |-> SpotifyErrorPrefix \o ExcText]
    ELSE IF out = "noitems"
      THEN [raised |-> FALSE, searched |-> TRUE, text |-> SpotifyNoMatches]
    ELSE [raised |-> FALSE, searched |-> TRUE,
          text |-> SpotifyHeader \o BoldArtistTitle(ArtistX, TitleY)
                       \o LinkLine(SpotifyUrl, ListenOnSpotify)
                       \o <<"\n", "\n">>]

\* the gate with the boundary on the reject side
LowConfidenceInclusive(score) == score <= Threshold

\* `if score < 0.3`
LowConfidence(score) == score < Threshold

\* the text of an accepted fingerprint match
FingerprintText(artist_name, track_title, rid) ==
    BoldArtistTitle(artist_name, track_title)
        \o LinkLine(MusicBrainzUrl \o rid, ViewOnMusicBrainz)

\* ---- identify_audio

NoInput == [file_path |-> << >>, hint |-> NoHint, audd_key |-> FALSE,
            spotify |-> FALSE]

\* prepared, the first candidate of the fingerprint answer, the highest
\* score of the answer, the branch taken, the query for the catalog search,
\* what Audd.io and the recording lookup answered, and how often
\* spotify.search was called
NoLocals == [prepared |-> "none", top |-> NoCandidate, best |-> 0,
             branch |-> "none", query |-> << >>, audd |-> "none",
             lookup |-> "none", searches |-> 0]

\* the highest score among the candidates of an answer
MaxScore(results) ==
    CHOOSE sc \in { results[k].score : k \in DOMAIN results } :
        \A k \in DOMAIN results : results[k].score <= sc

NoText == [kind |-> "none", text |-> << >>]

IdInit ==
    /\ id_pc = "idle"
    /\ id_in = NoInput
    /\ id_st = NoLocals
    /\ id_trace = << >>
    /\ id_result = NoText

\* `hint or os.path.basename(file_path)`
HintOrBasename(in) ==
    IF in.hint # NoHint THEN in.hint ELSE Basename(in.file_path)

\* the caller awaits identify_audio(file_path, hint); _convert_to_wav starts
IdCall(path, hint, key, client) ==
    /\ id_pc = "idle"
    /\ id_in' = [file_path |-> path, hint |-> hint, audd_key |-> key,
                 spotify |-> client]
    /\ id_pc' = "convert"
    /\ UNCHANGED <<id_st, id_trace, id_result>>
    /\ UNCHANGED not_id

\* the outer `except Exception`: the catalog search with the hint or the
\* file name
IdCrash(st) ==
    /\ id_pc' = "spotify"
    /\ id_st' = [st EXCEPT !.branch = "crash", !.query = HintOrBasename(id_in)]

\* _convert_to_wav ends: the .wav, the original path when ffmpeg exits
\* non-zero, or an exception when ffmpeg cannot be started
IdConverted(out) ==
    /\ id_pc = "convert"
    /\ id_trace' = Append(id_trace, "convert")
    /\ IF out = "raises"
          THEN IdCrash(id_st)
          ELSE /\ id_st' = [id_st EXCEPT !.prepared =
                               IF out = "ok" THEN "wav" ELSE "src"]
               /\ id_pc' = "match"
    /\ UNCHANGED <<id_in, id_result>>
    /\ UNCHANGED not_id

\* acoustid.match returns from the executor (an exception gives results =
\* []); the gate on results[0] follows with no await
IdMatched(raised, answer) ==
    /\ id_pc = "match"
    /\ id_trace' = Append(id_trace, "match")
    /\ LET results == IF raised THEN << >> ELSE answer
       IN IF results = << >>
            THEN /\ id_st' = [id_st EXCEPT !.branch = "nores"]
                 /\ id_pc' = "audd"
            ELSE IF LowConfidence(results[1].score)
              THEN /\ id_st' = [id_st EXCEPT !.top = results[1],
                                             !.best = MaxScore(results),
                                             !.branch = "low"]
                   /\ id_pc' = "audd"
              ELSE /\ id_st' = [id_st EXCEPT !.top = results[1],
                                             !.best = MaxScore(results),
                                             !.branch = "accepted"]
                   /\ id_pc' = "lookup"
    /\ UNCHANGED <<id_in, id_result>>
    /\ UNCHANGED not_id

\* identify_with_audd returns; its text is returned unless it holds
\* "No match" or "error", else the catalog search is queried: with the hint
\* or file name when there was no candidate, with the candidate's artist and
\* title when its score was low
IdAudd(out) ==
    /\ id_pc = "audd"
    /\ id_trace' = Append(id_trace, "audd")
    /\ LET audd_result == identify_with_audd(id_in.audd_key, out)
           answered == IF id_in.audd_key THEN out.kind ELSE "notconfigured"
       IN IF AuddAccepted(audd_result)
            THEN /\ id_result' = [kind |-> "audd", text |-> audd_result]
                 /\ id_st' = [id_st EXCEPT !.audd = answered]
                 /\ id_pc' = "done"
            ELSE /\ id_st' = [id_st EXCEPT
                      !.audd = answered,
                      !.query = IF id_st.branch = "nores"
                                  THEN HintOrBasename(id_in)
                                  ELSE id_st.top.artist \o <<" ">>
                                           \o id_st.top.title]
                 /\ id_pc' = "spotify"
                 /\ UNCHANGED id_result
    /\ UNCHANGED id_in
    /\ UNCHANGED not_id

\* musicbrainzngs.get_recording_by_id returns or raises; the fields the
\* answer lacks default to the fingerprint's artist and title
IdLookup(out) ==
    /\ id_pc = "lookup"
    /\ id_trace' = Append(id_trace, "lookup")
    /\ IF out = "raises"
          THEN /\ IdCrash([id_st EXCEPT !.lookup = out])
               /\ UNCHANGED id_result
          ELSE /\ id_st' = [id_st EXCEPT !.lookup = out]
               /\ id_result' =
                    [kind |-> "fingerprint",
                     text |-> IF out = "full"
                                THEN FingerprintText(CanonArtist, CanonTitle,
                                                     id_st.top.rid)
                                ELSE FingerprintText(id_st.top.artist,
                                                     id_st.top.title,
                                                     id_st.top.rid)]
               /\ id_pc' = "done"
    /\ UNCHANGED id_in
    /\ UNCHANGED not_id

\* search_spotify returns: inside the try its text is the result; inside the
\* except handler the text is appended to the crash notice, and an exception
\* there would leave identify_audio
IdSpotify(out) ==
    /\ id_pc = "spotify"
    /\ id_trace' = Append(id_trace, "spotify")
    /\ LET r == search_spotify(id_in.spotify, id_st.query, out)
           st == [id_st EXCEPT
                    !.searches = IF r.searched THEN @ + 1 ELSE @]
       IN IF id_st.branch # "crash"
            THEN IF r.raised
                   THEN /\ IdCrash(st)
                        /\ UNCHANGED id_result
                   ELSE /\ id_result' = [kind |-> "spotify", text |-> r.text]
                        /\ id_pc' = "done"
                        /\ id_st' = st
            ELSE IF r.raised
                   THEN /\ id_pc' = "raised"
                        /\ id_st' = st
                        /\ UNCHANGED id_result
                   ELSE /\ id_result' = [kind |-> "crash",
                                         text |-> CrashPrefix \o r.text]
                        /\ id_pc' = "done"
                        /\ id_st' = st
    /\ UNCHANGED id_in
    /\ UNCHANGED not_id

IdNext ==
    \/ \E path \in {TmpFile, MixFile}, hint \in {NoHint, HintText},
          key \in BOOLEAN, client \in BOOLEAN : IdCall(path, hint, key, client)
    \/ \E out \in {"ok", "failed", "raises"} : IdConverted(out)
    \/ \E raised \in BOOLEAN, answer \in ResultLists : IdMatched(raised, answer)
    \/ \E out \in AuddOutcomes : IdAudd(out)
    \/ \E out \in LookupOutcomes : IdLookup(out)
    \/ \E out \in SpotifyOutcomes : IdSpotify(out)

(***************************************************************************)
(* Size probe                                                              *)
(*                                                                         *)
(* Sizes are in MB; a size of 0 stands for a field that is absent, None or *)
(* 0, which `or` treats alike.                                             *)
(***************************************************************************)

\* check_video_size(url, max_size_mb=50)
max_size_mb == 50

Sizes == {0, 10, 40, 50, 60}

\* formats of one --dump-json answer
MaxFormats == 2

\* fmt.get('filesize'), fmt.get('filesize_approx')
FormatFields == [filesize : Sizes, filesize_approx : Sizes]

\* info.get('formats', []), each format with its place as format_id
FormatLists ==
    UNION { { [k \in 1..n |-> [format_id |-> k,
                               filesize |-> f[k].filesize,
                               filesize_approx |-> f[k].filesize_approx]] :
                f \in [1..n -> FormatFields] } : n \in 0..MaxFormats }

\* key=lambda x: x.get('filesize', 0) or 0
SortKey(fmt) == fmt.filesize

\* fmt.get('filesize') or fmt.get('filesize_approx') or 0
SizeOf(fmt) == IF fmt.filesize # 0 THEN fmt.filesize ELSE fmt.filesize_approx

\* `0 < size < max_size_mb * 1024 * 1024`
UnderCeiling(size) == 0 < size /\ size < max_size_mb

\* x put into a list in descending key order, behind the elements of equal
\* key
RECURSIVE InsertDesc(_, _)
InsertDesc(x, sorted) ==
    IF sorted = << >> THEN <<x>>
    ELSE IF SortKey(Head(sorted)) >= SortKey(x)
           THEN <<Head(sorted)>> \o InsertDesc(x, Tail(sorted))
           ELSE <<x>> \o sorted

\* sorted(formats, key=..., reverse=True): stable, so formats of equal key
\* keep their order
RECURSIVE SortedDesc(_)
SortedDesc(formats) ==
    IF formats = << >> THEN << >>
    ELSE InsertDesc(formats[Len(formats)],
                    SortedDesc(SubSeq(formats, 1, Len(formats) - 1)))

\* the first format of the loop whose size passes the test, or none
RECURSIVE FirstUnderCeiling(_)
FirstUnderCeiling(sorted) ==
    IF sorted = << >>
      THEN [found |-> FALSE, format_id |-> 0, size_mb |-> 0]
      ELSE IF UnderCeiling(SizeOf(Head(sorted)))
             THEN [found |-> TRUE, format_id |-> Head(sorted).format_id,
                   size_mb |-> SizeOf(Head(sorted))]
             ELSE FirstUnderCeiling(Tail(sorted))

\* the three dicts check_video_size returns; has_reason is `'reason' in
\* size_info`
ProbeUnavailable ==
    [can_download |-> TRUE, has_reason |-> FALSE, format_id |-> 0,
     size_mb |-> 0]

ProbeRefused ==
    [can_download |-> FALSE, has_reason |-> TRUE, format_id |-> 0,
     size_mb |-> 0]

ProbeFound(fmt) ==
    [can_download |-> TRUE, has_reason |-> FALSE, format_id |-> fmt.format_id,
     size_mb |-> fmt.size_mb]

\* the except branch answering as if no format fitted
check_video_size_closed(platform, raised, formats) ==
    IF platform = "instagram" THEN ProbeUnavailable
    ELSE IF raised THEN ProbeRefused
    ELSE LET first == FirstUnderCeiling(SortedDesc(formats))
         IN IF first.found THEN ProbeFound(first) ELSE ProbeRefused

\* check_video_size: `raised` is _run or json.loads or the loop raising
check_video_size(platform, raised, formats) ==
    IF platform = "instagram" THEN ProbeUnavailable
    ELSE IF raised THEN ProbeUnavailable
    ELSE LET first == FirstUnderCeiling(SortedDesc(formats))
         IN IF first.found THEN ProbeFound(first) ELSE ProbeRefused

NoProbeInput == [platform |-> "none", formats |-> << >>, raised |-> FALSE]

PrInit ==
    /\ pr_pc = "idle"
    /\ pr_in = NoProbeInput
    /\ pr_out = ProbeUnavailable

\* check_video_size(url) is awaited; for Instagram it returns at once, else
\* yt-dlp --dump-json is started
ProbeCall(platform) ==
    /\ pr_pc = "idle"
    /\ pr_in' = [pr_in EXCEPT !.platform = platform]
    /\ IF platform = "instagram"
          THEN /\ pr_pc' = "done"
               /\ pr_out' = check_video_size(platform, FALSE, << >>)
          ELSE /\ pr_pc' = "running"
               /\ UNCHANGED pr_out
    /\ UNCHANGED not_pr

\* _run returns the JSON, or the command or its parsing fails
ProbeReturn(raised, formats) ==
    /\ pr_pc = "running"
    /\ pr_in' = [pr_in EXCEPT !.formats = formats, !.raised = raised]
    /\ pr_out' = check_video_size(pr_in.platform, raised, formats)
    /\ pr_pc' = "done"
    /\ UNCHANGED not_pr

PrNext ==
    \/ \E platform \in {"instagram", "tiktok", "youtube"} : ProbeCall(platform)
    \/ \E raised \in BOOLEAN, formats \in FormatLists :
          ProbeReturn(raised, formats)

(***************************************************************************)
(* Rate limiter and the handlers that start downloads                      *)
(***************************************************************************)

\* rate_limiter = RateLimiter(max_requests=10, time_window=60)
max_requests == 10
time_window == 60

\* clock resolution: ticks in one second
TicksPerSecond == 2

WindowTicks == time_window * TicksPerSecond

\* the clock moves by one tick less than the window, or by the window
Durations == {WindowTicks - 1, WindowTicks}

MaxAdvances == 1
MaxUsers == 1
MaxInFlight == 2

Users == 1..MaxUsers
Slots == 1..MaxInFlight

Max(a, b) == IF a >= b THEN a ELSE b

\* the list comprehension of is_allowed: the request times younger than the
\* window
Recent(times, t) == SelectSeq(times, LAMBDA req_time : t - req_time < WindowTicks)

\* is_allowed without its append: an allowed call that is not recorded
is_allowed_unrecorded(times, t) ==
    LET cleaned == Recent(times, t)
    IN [allowed |-> Len(cleaned) < max_requests, times |-> cleaned]

\* is_allowed with `>` for `>=`
is_allowed_over(times, t) ==
    LET cleaned == Recent(times, t)
    IN IF Len(cleaned) > max_requests
         THEN [allowed |-> FALSE, times |-> cleaned]
         ELSE [allowed |-> TRUE, times |-> Append(cleaned, t)]

\* is_allowed: the cleaned list is stored in either case, the call is
\* appended when it is allowed
is_allowed(times, t) ==
    LET cleaned == Recent(times, t)
    IN IF Len(cleaned) >= max_requests
         THEN [allowed |-> FALSE, times |-> cleaned]
         ELSE [allowed |-> TRUE, times |-> Append(cleaned, t)]

\* time_until_allowed: max(0, int(time_window - (time.time() - oldest))),
\* in whole seconds
time_until_allowed(times, t) ==
    IF times = << >>
      THEN 0
      ELSE Max(0, (WindowTicks - (t - times[1])) \div TicksPerSecond)

\* a handler coroutine: which handler, where it is, what is_allowed
\* answered, whether its mkdtemp directory is on disk, what the size probe
\* answered, and whether it has invoked the downloader
NoRequest == [handler |-> "none", pc |-> "free", limiter |-> "none",
              tmpdir |-> FALSE, probe |-> "none", downloaded |-> FALSE]

NoVerdict == [called |-> FALSE, allowed |-> FALSE, recent |-> 0, wait |-> 0]

\* the formats the probe of a handler is answered with: none, or one of a
\* reported size
HandlerFormats ==
    { f \in FormatLists :
        Len(f) <= 1 /\ \A k \in DOMAIN f : f[k].filesize_approx = 0 }

RlInit ==
    /\ now = 0
    /\ advances = 0
    /\ requests = [u \in Users |-> << >>]
    /\ hq = [s \in Slots |-> NoRequest]
    /\ verdict = NoVerdict
    /\ left_behind = {}

\* an update is given to the first free coroutine slot
FreeSlot(s) ==
    /\ hq[s] = NoRequest
    /\ \A q \in Slots : q < s => hq[q] # NoRequest

\* time passes
Tick(d) ==
    /\ advances < MaxAdvances
    /\ advances' = advances + 1
    /\ now' = now + d
    /\ UNCHANGED <<requests, hq, verdict, left_behind>>
    /\ UNCHANGED not_rl

\* `if not rate_limiter.is_allowed(user_id)` with the time_until_allowed call
\* of the rejected branch, as both handlers of handlers/download.py begin
Limited(s, u, name) ==
    LET r == is_allowed(requests[u], now)
    IN /\ requests' = [requests EXCEPT ![u] = r.times]
       /\ verdict' = [called |-> TRUE, allowed |-> r.allowed,
                      recent |-> Len(Recent(requests[u], now)),
                      wait |-> IF r.allowed THEN 0
                               ELSE time_until_allowed(r.times, now)]
       /\ hq' = [hq EXCEPT ![s] =
                   [NoRequest EXCEPT
                      !.handler = name,
                      !.pc = IF r.allowed THEN "processing" ELSE "answering",
                      !.limiter = IF r.allowed THEN "allowed" ELSE "rejected"]]

\* handle_link_download up to its first await
LinkArrive(s, u) ==
    /\ FreeSlot(s)
    /\ Limited(s, u, "link")
    /\ UNCHANGED <<now, advances, left_behind>>
    /\ UNCHANGED not_rl

\* handle_audio_extraction (/mp3, /audio) up to its first await
Mp3Arrive(s, u) ==
    /\ FreeSlot(s)
    /\ Limited(s, u, "mp3")
    /\ UNCHANGED <<now, advances, left_behind>>
    /\ UNCHANGED not_rl

\* handle_text_music_search up to its first await: a query of fewer than two
\* words is answered, any other is searched for
TextArrive(s, two_words) ==
    /\ FreeSlot(s)
    /\ hq' = [hq EXCEPT ![s] =
                [NoRequest EXCEPT
                   !.handler = "text",
                   !.pc = IF two_words THEN "processing" ELSE "answering"]]
    /\ UNCHANGED <<now, advances, requests, verdict, left_behind>>
    /\ UNCHANGED not_rl

\* cb_get_music up to its first await: without a text or caption the alert
\* is answered
GetMusicArrive(s, has_text) ==
    /\ FreeSlot(s)
    /\ hq' = [hq EXCEPT ![s] =
                [NoRequest EXCEPT
                   !.handler = "get_music",
                   !.pc = IF has_text THEN "editing" ELSE "answering"]]
    /\ UNCHANGED <<now, advances, requests, verdict, left_behind>>
    /\ UNCHANGED not_rl

\* the downloader is invoked: download_from_url in handle_link_download and
\* handle_audio_extraction, yt-dlp through _run in handle_text_music_search
StartDownload(slot) ==
    [slot EXCEPT !.pc = "downloading", !.downloaded = TRUE]

\* handle_link_download: the status message is sent (an exception here
\* leaves the handler before its try), the directory is made, and inside
\* the try the next status text is awaited: the size check's for any
\* platform but Instagram, the download's for Instagram
LinkStatusSent(s, raised, platform) ==
    /\ hq[s].handler = "link"
    /\ hq[s].pc = "processing"
    /\ hq' = [hq EXCEPT ![s] =
                IF raised THEN NoRequest
                ELSE [@ EXCEPT !.tmpdir = TRUE,
                               !.pc = IF platform = "instagram"
                                        THEN "ready" ELSE "checking"]]
    /\ UNCHANGED <<now, advances, requests, verdict, left_behind>>
    /\ UNCHANGED not_rl

\* handle_link_download, step 1: check_video_size returns.  A refusal with a
\* reason is shown and the handler returns; a size is shown before the
\* download; a dict with neither goes to download_from_url with no await in
\* between.  An exception of the status edit goes to the handler's except.
LinkProbed(s, edit_raised, raised, formats) ==
    /\ hq[s].handler = "link"
    /\ hq[s].pc = "checking"
    /\ LET size_info == check_video_size("other", raised, formats)
           answered == IF raised THEN "failed"
                       ELSE IF size_info.can_download THEN "found"
                       ELSE "refused"
       IN hq' = [hq EXCEPT ![s] =
            IF edit_raised THEN [@ EXCEPT !.pc = "cleanup"]
            ELSE IF ~size_info.can_download /\ size_info.has_reason
              THEN [@ EXCEPT !.pc = "cleanup", !.probe = answered]
            ELSE IF size_info.size_mb # 0
              THEN [@ EXCEPT !.pc = "ready", !.probe = answered]
            ELSE StartDownload([@ EXCEPT !.probe = answered])]
    /\ UNCHANGED <<now, advances, requests, verdict, left_behind>>
    /\ UNCHANGED not_rl

\* handle_link_download, step 2: the status edit before the download
\* returns and download_from_url is awaited, or the edit raises
LinkStartDownload(s, edit_raised) ==
    /\ hq[s].handler = "link"
    /\ hq[s].pc = "ready"
    /\ hq' = [hq EXCEPT ![s] =
                IF edit_raised THEN [@ EXCEPT !.pc = "cleanup"]
                ELSE StartDownload(@)]
    /\ UNCHANGED <<now, advances, requests, verdict, left_behind>>
    /\ UNCHANGED not_rl

\* handle_audio_extraction: the status message is sent, the directory is
\* made and download_from_url is awaited
Mp3StatusSent(s, raised) ==
    /\ hq[s].handler = "mp3"
    /\ hq[s].pc = "processing"
    /\ hq' = [hq EXCEPT ![s] =
                IF raised THEN NoRequest
                ELSE StartDownload([@ EXCEPT !.tmpdir = TRUE])]
    /\ UNCHANGED <<now, advances, requests, verdict, left_behind>>
    /\ UNCHANGED not_rl

\* handle_text_music_search: the catalog search is answered, the directory
\* is made and yt-dlp is awaited; an exception before that is answered by
\* the handler's except
TextSearched(s, raised) ==
    /\ hq[s].handler = "text"
    /\ hq[s].pc = "processing"
    /\ hq' = [hq EXCEPT ![s] =
                IF raised THEN [@ EXCEPT !.pc = "answering"]
                ELSE StartDownload([@ EXCEPT !.tmpdir = TRUE])]
    /\ UNCHANGED <<now, advances, requests, verdict, left_behind>>
    /\ UNCHANGED not_rl

\* the download returns or raises.  handle_link_download and
\* handle_audio_extraction send what they send and reach their finally;
\* handle_text_music_search sends the audio or its apology
DownloadReturned(s) ==
    /\ hq[s].pc = "downloading"
    /\ hq' = [hq EXCEPT ![s].pc =
                IF hq[s].handler = "text" THEN "answering" ELSE "cleanup"]
    /\ UNCHANGED <<now, advances, requests, verdict, left_behind>>
    /\ UNCHANGED not_rl

\* the finally of handle_link_download and handle_audio_extraction:
\* asyncio.sleep(2), then shutil.rmtree(tmpdir, ignore_errors=True)
Cleanup(s) ==
    /\ hq[s].pc = "cleanup"
    /\ hq' = [hq EXCEPT ![s] = [@ EXCEPT !.pc = "answering", !.tmpdir = FALSE]]
    /\ UNCHANGED <<now, advances, requests, verdict, left_behind>>
    /\ UNCHANGED not_rl

\* cb_get_music hands the text, a str, to download_from_text_or_url, whose
\* `message.text` raises; the TemporaryDirectory is removed on the way out
\* and the handler's except answers the failure
GetMusicFailed(s) ==
    /\ hq[s].pc = "editing"
    /\ hq' = [hq EXCEPT ![s].pc = "answering"]
    /\ UNCHANGED <<now, advances, requests, verdict, left_behind>>
    /\ UNCHANGED not_rl

\* the handler returns; a directory it made and did not remove stays on disk
HandlerDone(s) ==
    /\ hq[s].pc = "answering"
    /\ left_behind' = IF hq[s].tmpdir THEN left_behind \cup {hq[s].handler}
                      ELSE left_behind
    /\ hq' = [hq EXCEPT ![s] = NoRequest]
    /\ UNCHANGED <<now, advances, requests, verdict>>
    /\ UNCHANGED not_rl

RlNext ==
    \/ \E d \in Durations : Tick(d)
    \/ \E s \in Slots, u \in Users : LinkArrive(s, u)
    \/ \E s \in Slots, u \in Users : Mp3Arrive(s, u)
    \/ \E s \in Slots, two_words \in BOOLEAN : TextArrive(s, two_words)
    \/ \E s \in Slots, has_text \in BOOLEAN : GetMusicArrive(s, has_text)
    \/ \E s \in Slots, raised \in BOOLEAN,
          platform \in {"instagram", "other"} :
          LinkStatusSent(s, raised, platform)
    \/ \E s \in Slots, edit_raised \in BOOLEAN, raised \in BOOLEAN,
          formats \in HandlerFormats :
          LinkProbed(s, edit_raised, raised, formats)
    \/ \E s \in Slots, edit_raised \in BOOLEAN :
          LinkStartDownload(s, edit_raised)
    \/ \E s \in Slots, raised \in BOOLEAN : Mp3StatusSent(s, raised)
    \/ \E s \in Slots, raised \in BOOLEAN : TextSearched(s, raised)
    \/ \E s \in Slots : DownloadReturned(s)
    \/ \E s \in Slots : Cleanup(s)
    \/ \E s \in Slots : GetMusicFailed(s)
    \/ \E s \in Slots : HandlerDone(s)

(***************************************************************************)
(* Audio-only conversion of an Instagram result                            *)
(*                                                                         *)
(* A path is its name without the last ".ext" and that extension.          *)
(***************************************************************************)

\* files of one result
MaxPaths == 2

Stems == {"a", "b"}

Extensions == {"mp4", "mov", "jpg"}

Paths == [stem : Stems, ext : Extensions \cup {"mp3"}]

PathLists ==
    UNION { [1..n -> [stem : Stems, ext : Extensions]] : n \in 0..MaxPaths }

\* path.endswith(('.mp4', '.mov', '.mkv'))
IsVideo(path) == path.ext \in {"mp4", "mov", "mkv"}

\* path.rsplit('.', 1)[0] + '.mp3'
AudioPath(path) == [stem |-> path.stem, ext |-> "mp3"]

\* the conversion entered whatever the handler answered
ShouldConvertAlways(audio_only, success) == audio_only

\* `if audio_only and result.get('success')`
ShouldConvert(audio_only, success) == audio_only /\ success

\* the place of the next video at or behind k, or one past the end
RECURSIVE NextVideo(_, _)
NextVideo(paths, k) ==
    IF k > Len(paths) THEN k
    ELSE IF IsVideo(paths[k]) THEN k
    ELSE NextVideo(paths, k + 1)

NoConversion == [audio_only |-> FALSE, success |-> FALSE, paths |-> << >>]

CvInit ==
    /\ cv_pc = "idle"
    /\ cv_in = NoConversion
    /\ cv_k = 0
    /\ cv_log = << >>
    /\ cv_audio = << >>
    /\ cv_out = << >>

\* the loop from place k: extract_audio_mp3 is awaited for the next video,
\* or the loop has ended and result['paths'] = audio_paths
ConvLoop(paths, k, audio) ==
    LET j == NextVideo(paths, k)
    IN IF j > Len(paths)
         THEN /\ cv_pc' = "done"
              /\ cv_k' = j
              /\ cv_out' = audio
              /\ UNCHANGED cv_log
         ELSE /\ cv_pc' = "extracting"
              /\ cv_k' = j
              /\ cv_log' = Append(cv_log, paths[j])
              /\ UNCHANGED cv_out

\* download_from_url, Instagram branch: download_instagram has returned
\* `result`
ConvCall(audio_only, success, paths) ==
    /\ cv_pc = "idle"
    /\ cv_in' = [audio_only |-> audio_only, success |-> success,
                 paths |-> paths]
    /\ cv_audio' = << >>
    /\ IF ShouldConvert(audio_only, success)
          THEN ConvLoop(paths, 1, << >>)
          ELSE /\ cv_pc' = "done"
               /\ cv_out' = paths
               /\ UNCHANGED <<cv_k, cv_log>>
    /\ UNCHANGED not_cv

\* extract_audio_mp3 returns out_path, or raises RuntimeError, which leaves
\* download_from_url
ConvExtracted(ok) ==
    /\ cv_pc = "extracting"
    /\ IF ok
          THEN /\ cv_audio' = Append(cv_audio, AudioPath(cv_in.paths[cv_k]))
               /\ ConvLoop(cv_in.paths, cv_k + 1,
                           Append(cv_audio, AudioPath(cv_in.paths[cv_k])))
          ELSE /\ cv_pc' = "raised"
               /\ UNCHANGED <<cv_k, cv_log, cv_audio, cv_out>>
    /\ UNCHANGED cv_in
    /\ UNCHANGED not_cv

CvNext ==
    \/ \E audio_only \in BOOLEAN, success \in BOOLEAN, paths \in PathLists :
          ConvCall(audio_only, success, paths)
    \/ \E ok \in BOOLEAN : ConvExtracted(ok)

(***************************************************************************)
(* Platform detection                                                      *)
(***************************************************************************)

\* the fragments of detect_platform, in the order of its tests
PlatformTable ==
    << [tag |-> "instagram",
        fragments |-> {<< "i", "n", "s", "t", "a", "g", "r", "a", "m", ".", "c", "o", "m" >>,
                       << "i", "n", "s", "t", "a", "g", "r", ".", "a", "m" >>}],
       [tag |-> "tiktok",
        fragments |-> {<< "t", "i", "k", "t", "o", "k", ".", "c", "o", "m" >>,
                       << "v", "m", ".", "t", "i", "k", "t", "o", "k", ".", "c", "o", "m" >>}],
       [tag |-> "youtube",
        fragments |-> {<< "y", "o", "u", "t", "u", "b", "e", ".", "c", "o", "m" >>,
                       << "y", "o", "u", "t", "u", ".", "b", "e" >>}],
       [tag |-> "twitter",
        fragments |-> {<< "t", "w", "i", "t", "t", "e", "r", ".", "c", "o", "m" >>,
                       << "x", ".", "c", "o", "m" >>}],
       [tag |-> "facebook",
        fragments |-> {<< "f", "a", "c", "e", "b", "o", "o", "k", ".", "c", "o", "m" >>,
                       << "f", "b", ".", "w", "a", "t", "c", "h" >>}] >>

\* `"a" in url_lower or "b" in url_lower` for the fragments of one row
RowMatches(row, url_lower) ==
    \E fragment \in row.fragments : Contains(fragment, url_lower)

\* the if/elif chain from row k on
RECURSIVE FirstMatch(_, _)
FirstMatch(k, url_lower) ==
    IF k > Len(PlatformTable) THEN "other"
    ELSE IF RowMatches(PlatformTable[k], url_lower) THEN PlatformTable[k].tag
    ELSE FirstMatch(k + 1, url_lower)

detect_platform(url) == FirstMatch(1, LowerStr(url))

Schemes == {<< "h", "t", "t", "p", "s", ":", "/", "/" >>, << "H", "T", "T", "P", ":", "/", "/" >>, << >>}

\* host names, each with the platform it belongs to
Hosts ==
    {
      [text |-> << "i", "n", "s", "t", "a", "g", "r", "a", "m", ".", "c", "o", "m" >>,
       tag |-> "instagram"],
      [text |-> << "w", "w", "w", ".", "i", "n", "s", "t", "a", "g", "r", ".", "a", "m" >>,
       tag |-> "instagram"],
      [text |-> << "v", "m", ".", "t", "i", "k", "t", "o", "k", ".", "c", "o", "m" >>,
       tag |-> "tiktok"],
      [text |-> << "w", "w", "w", ".", "T", "i", "k", "T", "o", "k", ".", "c", "o", "m" >>,
       tag |-> "tiktok"],
      [text |-> << "y", "o", "u", "t", "u", ".", "b", "e" >>,
       tag |-> "youtube"],
      [text |-> << "m", ".", "Y", "O", "U", "T", "U", "B", "E", ".", "c", "o", "m" >>,
       tag |-> "youtube"],
      [text |-> << "x", ".", "c", "o", "m" >>,
       tag |-> "twitter"],
      [text |-> << "t", "w", "i", "t", "t", "e", "r", ".", "c", "o", "m" >>,
       tag |-> "twitter"],
      [text |-> << "f", "b", ".", "w", "a", "t", "c", "h" >>,
       tag |-> "facebook"],
      [text |-> << "w", "w", "w", ".", "f", "a", "c", "e", "b", "o", "o", "k", ".", "c", "o", "m" >>,
       tag |-> "facebook"],
      [text |-> << "e", "x", "a", "m", "p", "l", "e", ".", "o", "r", "g" >>,
       tag |-> "other"]
    }

\* path and query string, each with the platform whose fragment it holds
Tails ==
    {
      [text |-> << >>,
       tag |-> "other"],
      [text |-> << "/", "p", "/", "C", "x", "1", "/" >>,
       tag |-> "other"],
      [text |-> << "/", "v", "/", "1", "?", "s", "h", "a", "r", "e", "=", "i", "n", "s", "t", "a", "g", "r", "a", "m", ".", "c", "o", "m" >>,
       tag |-> "instagram"],
      [text |-> << "/", "v", "/", "1", "?", "r", "e", "f", "=", "y", "o", "u", "t", "u", ".", "b", "e" >>,
       tag |-> "youtube"]
    }

UrlOf(in) == in.scheme \o in.host.text \o in.tail.text

NoUrl ==
    [scheme |-> << >>, host |-> [text |-> << >>, tag |-> "other"],
     tail |-> [text |-> << >>, tag |-> "other"]]

DpInit ==
    /\ dp_pc = "idle"
    /\ dp_in = NoUrl
    /\ dp_out = "none"

\* a caller passes a url
DetectCall(scheme, host, tail) ==
    /\ dp_pc = "idle"
    /\ dp_pc' = "called"
    /\ dp_in' = [scheme |-> scheme, host |-> host, tail |-> tail]
    /\ UNCHANGED dp_out
    /\ UNCHANGED not_dp

DetectReturn ==
    /\ dp_pc = "called"
    /\ dp_pc' = "done"
    /\ dp_out' = detect_platform(UrlOf(dp_in))
    /\ UNCHANGED dp_in
    /\ UNCHANGED not_dp

DpNext ==
    \/ \E scheme \in Schemes, host \in Hosts, tail \in Tails :
          DetectCall(scheme, host, tail)
    \/ DetectReturn

(***************************************************************************)
(* Catalog-query cleaning, applied twice                                   *)
(***************************************************************************)

\* characters of a text
MaxQueryLen == 4

QueryChars == {"a", ".", " ", "_"}

QueryTexts == UNION { [1..n -> QueryChars] : n \in 0..MaxQueryLen }

CqInit ==
    /\ cq_pc = "idle"
    /\ cq_in = << >>
    /\ cq_once = << >>
    /\ cq_twice = << >>

\* _clean_query(text)
CleanCall(text) ==
    /\ cq_pc = "idle"
    /\ cq_pc' = "once"
    /\ cq_in' = text
    /\ cq_once' = clean_query(text)
    /\ UNCHANGED cq_twice
    /\ UNCHANGED not_cq

\* _clean_query of what _clean_query returned
CleanAgain ==
    /\ cq_pc = "once"
    /\ cq_pc' = "twice"
    /\ cq_twice' = clean_query(cq_once)
    /\ UNCHANGED <<cq_in, cq_once>>
    /\ UNCHANGED not_cq

CqNext ==
    \/ \E text \in QueryTexts : CleanCall(text)
    \/ CleanAgain

(***************************************************************************)
(* run_yt_dlp under handle_link_download: failure classification           *)
(*                                                                         *)
(* Two runs of the same request are kept side by side; they get the same   *)
(* answers of the environment and their own stderr text.                   *)
(***************************************************************************)

\* _run: RuntimeError(f"Command failed: {error_msg}")
CommandFailedPrefix ==
    << "C", "o", "m", "m", "a", "n", "d", " ", "f", "a", "i", "l", "e",
       "d", ":", " " >>

NoFilesDownloaded ==
    << "N", "o", " ", "f", "i", "l", "e", "s", " ", "d", "o", "w", "n",
       "l", "o", "a", "d", "e", "d" >>

BotDetectionMessage ==
    << "B", "o", "t", " ", "d", "e", "t", "e", "c", "t", "i", "o", "n",
       ".", " ", "T", "r", "y", ":", " ", "1", ")", " ", "A", "d", "d",
       " ", "c", "o", "o", "k", "i", "e", "s", ".", "t", "x", "t", ",",
       " ", "2", ")", " ", "U", "p", "d", "a", "t", "e", " ", "y", "t",
       "-", "d", "l", "p", ",", " ", "3", ")", " ", "U", "s", "e", " ",
       "V", "P", "N" >>

AccessForbiddenMessage ==
    << "A", "c", "c", "e", "s", "s", " ", "f", "o", "r", "b", "i", "d",
       "d", "e", "n", ".", " ", "C", "o", "n", "t", "e", "n", "t", " ",
       "m", "a", "y", " ", "b", "e", " ", "p", "r", "i", "v", "a", "t",
       "e", "/", "g", "e", "o", "-", "b", "l", "o", "c", "k", "e", "d",
       ".", " ", "T", "r", "y", " ", "c", "o", "o", "k", "i", "e", "s",
       " ", "o", "r", " ", "V", "P", "N", "." >>

ConnectionTimeoutMessage ==
    << "C", "o", "n", "n", "e", "c", "t", "i", "o", "n", " ", "t", "i",
       "m", "e", "o", "u", "t", ".", " ", "C", "h", "e", "c", "k", " ",
       "y", "o", "u", "r", " ", "i", "n", "t", "e", "r", "n", "e", "t",
       " ", "o", "r", " ", "t", "r", "y", " ", "a", "g", "a", "i", "n",
       "." >>

DownloadFailedPrefix ==
    << "D", "o", "w", "n", "l", "o", "a", "d", " ", "f", "a", "i", "l",
       "e", "d", ":", " " >>

\* run_yt_dlp_tiktok_enhanced: the RuntimeError after the last strategy
TikTokFailedPrefix ==
    << "T", "i", "k", "T", "o", "k", " ", "d", "o", "w", "n", "l", "o",
       "a", "d", " ", "f", "a", "i", "l", "e", "d", " ", "a", "f", "t",
       "e", "r", " ", "4", " ", "a", "t", "t", "e", "m", "p", "t", "s",
       ".", " ", "T", "i", "k", "T", "o", "k", " ", "m", "a", "y", " ",
       "b", "e", " ", "b", "l", "o", "c", "k", "i", "n", "g", " ", "r",
       "e", "q", "u", "e", "s", "t", "s", ".", " ", "T", "r", "y", ":",
       " ", "1", ")", " ", "U", "p", "d", "a", "t", "e", " ", "y", "t",
       "-", "d", "l", "p", ",", " ", "2", ")", " ", "A", "d", "d", " ",
       "f", "r", "e", "s", "h", " ", "c", "o", "o", "k", "i", "e", "s",
       ",", " ", "3", ")", " ", "U", "s", "e", " ", "V", "P", "N", ".",
       " ", "L", "a", "s", "t", " ", "e", "r", "r", "o", "r", ":", " " >>

\* str(None)
NoneText ==
    << "N", "o", "n", "e" >>

\* str(e) of a failed status_msg.edit_text
TelegramErrorText ==
    << "T", "e", "l", "e", "g", "r", "a", "m", " ", "s", "e", "r", "v",
       "e", "r", " ", "s", "a", "y", "s", " ", "-", " ", "B", "a", "d",
       " ", "R", "e", "q", "u", "e", "s", "t", ":", " ", "m", "e", "s",
       "s", "a", "g", "e", " ", "i", "s", " ", "n", "o", "t", " ", "m",
       "o", "d", "i", "f", "i", "e", "d" >>

ContainsAny(needles, text) == \E needle \in needles : Contains(needle, text)

\* the branch of run_yt_dlp's `except Exception as e` that str(e) takes
run_class(e) ==
    LET error_str == LowerStr(e)
    IN IF ContainsAny({<< "s", "i", "g", "n", " ", "i", "n" >>, << "b", "o", "t" >>}, error_str)
         THEN "bot"
       ELSE IF ContainsAny({<< "4", "0", "3" >>,
                            << "f", "o", "r", "b", "i", "d", "d", "e", "n" >>}, error_str)
         THEN "forbidden"
       ELSE IF ContainsAny({<< "t", "i", "m", "e", "o", "u", "t" >>,
                            << "t", "i", "m", "e", "d", " ", "o", "u", "t" >>}, error_str)
         THEN "timeout"
       ELSE "other"

\* the message of the RuntimeError that branch raises
classify_failure(e) ==
    CASE run_class(e) = "bot" -> BotDetectionMessage
      [] run_class(e) = "forbidden" -> AccessForbiddenMessage
      [] run_class(e) = "timeout" -> ConnectionTimeoutMessage
      [] OTHER -> DownloadFailedPrefix \o e

NoYtResult ==
    [raised |-> FALSE, success |-> FALSE, npaths |-> 0, method |-> "absent",
     message |-> << >>]

\* an except branch that returns a failure dict on bot detection
raise_classified_soft(e) ==
    [NoYtResult EXCEPT !.raised = run_class(e) # "bot",
                       !.message = classify_failure(e)]

\* run_yt_dlp's except: every branch raises
raise_classified(e) ==
    [NoYtResult EXCEPT !.raised = TRUE, !.message = classify_failure(e)]

YtPlatforms == {"youtube", "other", "tiktok"}

\* what the downloader process did: exit code 0 with one file, two files or
\* no file in tmpdir, or a non-zero exit code
YtOutcomes == {"onefile", "twofiles", "nofiles", "nonzero"}

FilesOf(ended) ==
    CASE ended = "onefile" -> 1
      [] ended = "twofiles" -> 2
      [] OTHER -> 0

\* stderr texts of the downloader, each with what went wrong
ErrorTexts ==
    {
      [cause |-> "bot",
       text |->
          << "E", "R", "R", "O", "R", ":", " ", "S", "i", "g", "n", " ",
             "i", "n", " ", "t", "o", " ", "c", "o", "n", "f", "i", "r",
             "m", " ", "y", "o", "u", "'", "r", "e", " ", "n", "o", "t",
             " ", "a", " ", "b", "o", "t" >>],
      [cause |-> "forbidden",
       text |->
          << "E", "R", "R", "O", "R", ":", " ", "H", "T", "T", "P", " ",
             "E", "r", "r", "o", "r", " ", "4", "0", "3", ":", " ", "F",
             "o", "r", "b", "i", "d", "d", "e", "n" >>],
      [cause |-> "private",
       text |->
          << "E", "R", "R", "O", "R", ":", " ", "P", "r", "i", "v", "a",
             "t", "e", " ", "v", "i", "d", "e", "o" >>],
      [cause |-> "private",
       text |->
          << "E", "R", "R", "O", "R", ":", " ", "P", "r", "i", "v", "a",
             "t", "e", " ", "v", "i", "d", "e", "o", ".", " ", "S", "i",
             "g", "n", " ", "i", "n", " ", "i", "f", " ", "y", "o", "u",
             "'", "v", "e", " ", "b", "e", "e", "n", " ", "g", "r", "a",
             "n", "t", "e", "d", " ", "a", "c", "c", "e", "s", "s" >>],
      [cause |-> "timeout",
       text |->
          << "E", "R", "R", "O", "R", ":", " ", "C", "o", "n", "n", "e",
             "c", "t", "i", "o", "n", " ", "t", "i", "m", "e", "d", " ",
             "o", "u", "t" >>],
      [cause |-> "notfound",
       text |->
          << "E", "R", "R", "O", "R", ":", " ", "H", "T", "T", "P", " ",
             "E", "r", "r", "o", "r", " ", "4", "0", "4", ":", " ", "N",
             "o", "t", " ", "F", "o", "u", "n", "d" >>],
      [cause |-> "other",
       text |->
          << "E", "R", "R", "O", "R", ":", " ", "U", "n", "s", "u", "p",
             "p", "o", "r", "t", "e", "d", " ", "U", "R", "L" >>]
    }

\* run_yt_dlp(url, tmpdir): the dict it returns or the exception it raises.
\* On the multi-strategy platform every strategy meets the same ended.
run_yt_dlp(platform, ended, stderr) ==
    IF platform = "tiktok"
      THEN IF FilesOf(ended) > 0
             THEN [NoYtResult EXCEPT !.success = TRUE,
                                     !.npaths = FilesOf(ended),
                                     !.method = MethodName("enhanced", 1)]
             ELSE [NoYtResult EXCEPT
                     !.raised = TRUE,
                     !.message = TikTokFailedPrefix \o
                         (IF ended = "nonzero"
                            THEN CommandFailedPrefix \o stderr
                            ELSE NoneText)]
    ELSE IF ended = "nonzero"
      THEN raise_classified(CommandFailedPrefix \o stderr)
    ELSE IF ended = "nofiles"
      THEN raise_classified(NoFilesDownloaded)
    ELSE [NoYtResult EXCEPT !.success = TRUE, !.npaths = FilesOf(ended)]

\* error_msg[:200]
Truncated(text, n) == SubSeq(text, 1, IF Len(text) < n THEN Len(text) ELSE n)

\* handle_link_download's `except Exception as e`: the guidance whose text
\* the status message is set to, and the part of error_msg it quotes
link_guidance(error_msg) ==
    IF ContainsAny({<< "P", "r", "i", "v", "a", "t", "e" >>,
                    << "p", "r", "i", "v", "a", "t", "e" >>}, error_msg)
      THEN [kind |-> "private", detail |-> << >>]
    ELSE IF \/ Contains(<< "B", "o", "t", " ", "d", "e", "t", "e", "c", "t", "i", "o", "n" >>, error_msg)
            \/ Contains(<< "s", "i", "g", "n", " ", "i", "n" >>, LowerStr(error_msg))
      THEN [kind |-> "bot", detail |-> << >>]
    ELSE IF ContainsAny({<< "4", "0", "3" >>,
                         << "F", "o", "r", "b", "i", "d", "d", "e", "n" >>}, error_msg)
      THEN [kind |-> "forbidden", detail |-> << >>]
    ELSE IF \/ Contains(<< "n", "o", "t", " ", "f", "o", "u", "n", "d" >>, LowerStr(error_msg))
            \/ Contains(<< "4", "0", "4" >>, error_msg)
      THEN [kind |-> "notfound", detail |-> << >>]
    ELSE [kind |-> "generic", detail |-> Truncated(error_msg, 200)]

YtRuns == {1, 2}

NoShown == [kind |-> "none", detail |-> << >>]

NoYtInput ==
    [platform |-> "none", ended |-> "none", edit_raises |-> FALSE,
     stderr |-> [r \in YtRuns |-> << >>],
     cause |-> [r \in YtRuns |-> "none"]]

YtInit ==
    /\ yt_pc = [r \in YtRuns |-> "idle"]
    /\ yt_in = NoYtInput
    /\ yt_out = [r \in YtRuns |-> NoYtResult]
    /\ yt_trace = [r \in YtRuns |-> << >>]
    /\ yt_shown = [r \in YtRuns |-> NoShown]
    /\ yt_escaped = [r \in YtRuns |-> FALSE]

\* the handler reaches `await download_from_url(url, tmpdir)` in both runs
YtCall(platform, ended, edit_raises, first, second) ==
    /\ \A r \in YtRuns : yt_pc[r] = "idle"
    /\ yt_in' = [platform |-> platform, ended |-> ended,
                 edit_raises |-> edit_raises,
                 stderr |-> [r \in YtRuns |->
                               IF r = 1 THEN first.text ELSE second.text],
                 cause |-> [r \in YtRuns |->
                               IF r = 1 THEN first.cause ELSE second.cause]]
    /\ yt_pc' = [r \in YtRuns |-> "downloading"]
    /\ UNCHANGED <<yt_out, yt_trace, yt_shown, yt_escaped>>
    /\ UNCHANGED not_yt

\* download_from_url ends.  An exception enters the except handler, which
\* awaits the edit of the status message; a dict without success is shown
\* as "Download failed" and the handler returns; otherwise the upload
\* notice is shown
YtDownloaded(r) ==
    /\ yt_pc[r] = "downloading"
    /\ LET res == run_yt_dlp(yt_in.platform, yt_in.ended, yt_in.stderr[r])
       IN /\ yt_out' = [yt_out EXCEPT ![r] = res]
          /\ yt_trace' = [yt_trace EXCEPT
                            ![r] = @ \o <<"download_from_url", "edit_text">>]
          /\ IF res.raised
               THEN /\ yt_shown' = [yt_shown EXCEPT
                                      ![r] = link_guidance(res.message)]
                    /\ yt_pc' = [yt_pc EXCEPT ![r] = "editing_except"]
               ELSE /\ yt_shown' = [yt_shown EXCEPT
                          ![r] = [kind |-> IF res.success THEN "uploading"
                                           ELSE "failed",
                                  detail |-> << >>]]
                    /\ yt_pc' = [yt_pc EXCEPT ![r] = "editing_try"]
    /\ UNCHANGED <<yt_in, yt_escaped>>
    /\ UNCHANGED not_yt

\* an edit_text awaited inside the try ends: its exception enters the except
\* handler; otherwise the files are sent, or the handler returns
YtEditedInTry(r) ==
    /\ yt_pc[r] = "editing_try"
    /\ IF yt_in.edit_raises
          THEN /\ yt_shown' = [yt_shown EXCEPT
                                 ![r] = link_guidance(TelegramErrorText)]
               /\ yt_trace' = [yt_trace EXCEPT ![r] = Append(@, "edit_text")]
               /\ yt_pc' = [yt_pc EXCEPT ![r] = "editing_except"]
          ELSE /\ yt_pc' = [yt_pc EXCEPT
                              ![r] = IF yt_out[r].success THEN "uploading"
                                     ELSE "sleeping"]
               /\ UNCHANGED <<yt_shown, yt_trace>>
    /\ UNCHANGED <<yt_in, yt_out, yt_escaped>>
    /\ UNCHANGED not_yt

\* the edit_text of the except handler ends; its exception leaves the
\* handler once the finally block has run
YtEditedInExcept(r) ==
    /\ yt_pc[r] = "editing_except"
    /\ yt_escaped' = [yt_escaped EXCEPT ![r] = yt_in.edit_raises]
    /\ yt_pc' = [yt_pc EXCEPT ![r] = "sleeping"]
    /\ UNCHANGED <<yt_in, yt_out, yt_trace, yt_shown>>
    /\ UNCHANGED not_yt

\* the files have been sent and the status message deleted
YtUploaded(r) ==
    /\ yt_pc[r] = "uploading"
    /\ yt_trace' = [yt_trace EXCEPT ![r] = Append(@, "upload")]
    /\ yt_pc' = [yt_pc EXCEPT ![r] = "sleeping"]
    /\ UNCHANGED <<yt_in, yt_out, yt_shown, yt_escaped>>
    /\ UNCHANGED not_yt

\* finally: asyncio.sleep(2) returns and tmpdir is removed
YtCleanedUp(r) ==
    /\ yt_pc[r] = "sleeping"
    /\ yt_trace' = [yt_trace EXCEPT ![r] = @ \o <<"sleep", "rmtree">>]
    /\ yt_pc' = [yt_pc EXCEPT ![r] = "done"]
    /\ UNCHANGED <<yt_in, yt_out, yt_shown, yt_escaped>>
    /\ UNCHANGED not_yt

YtNext ==
    \/ \E platform \in YtPlatforms, ended \in YtOutcomes,
          edit_raises \in BOOLEAN, first \in ErrorTexts, second \in ErrorTexts :
          YtCall(platform, ended, edit_raises, first, second)
    \/ \E r \in YtRuns : YtDownloaded(r)
    \/ \E r \in YtRuns : YtEditedInTry(r)
    \/ \E r \in YtRuns : YtEditedInExcept(r)
    \/ \E r \in YtRuns : YtUploaded(r)
    \/ \E r \in YtRuns : YtCleanedUp(r)

(***************************************************************************)
(* The rate limiter alone: is_allowed calls at non-decreasing times        *)
(***************************************************************************)

\* is_allowed calls of one user
MaxWindowCalls == 12

\* moves of the clock
MaxWindowAdvances == 3

\* the clock moves by one tick, by one tick less than the window, or by the
\* window
WindowDurations == {1, WindowTicks - 1, WindowTicks}

NoWindowCall == [called |-> FALSE, user |-> 0, allowed |-> FALSE]

WnInit ==
    /\ wn_now = 0
    /\ wn_adv = 0
    /\ wn_requests = [u \in Users |-> << >>]
    /\ wn_calls = [u \in Users |-> 0]
    /\ wn_log = [u \in Users |-> << >>]
    /\ wn_last = NoWindowCall

\* time.time() has grown between two calls
WnTick(d) ==
    /\ wn_adv < MaxWindowAdvances
    /\ wn_adv' = wn_adv + 1
    /\ wn_now' = wn_now + d
    /\ UNCHANGED <<wn_requests, wn_calls, wn_log, wn_last>>
    /\ UNCHANGED not_wn

\* rate_limiter.is_allowed(user_id)
WnCall(u) ==
    /\ wn_calls[u] < MaxWindowCalls
    /\ LET r == is_allowed(wn_requests[u], wn_now)
       IN /\ wn_requests' = [wn_requests EXCEPT ![u] = r.times]
          /\ wn_log' = [wn_log EXCEPT ![u] = IF r.allowed
                                                THEN Append(@, wn_now)
                                                ELSE @]
          /\ wn_last' = [called |-> TRUE, user |-> u, allowed |-> r.allowed]
    /\ wn_calls' = [wn_calls EXCEPT ![u] = @ + 1]
    /\ UNCHANGED <<wn_now, wn_adv>>
    /\ UNCHANGED not_wn

WnNext ==
    \/ \E d \in WindowDurations : WnTick(d)
    \/ \E u \in Users : WnCall(u)

(***************************************************************************)
(* The upload loop of handle_link_download                                 *)
(*                                                                         *)
(* Sizes are in megabytes.                                                 *)
(***************************************************************************)

\* MAX_TG_FILE_SIZE = 50 * 1024 * 1024
MAX_TG_FILE_SIZE == 50

\* files of one download
MaxUploads == 2

UploadExtensions == {"jpg", "mp4", "webm", "txt"}

\* sizes of downloaded and of compressed files
UploadSizes == {10, 50, 51}

UploadPaths ==
    UNION { [1..n -> [ext : UploadExtensions, size : UploadSizes]] :
              n \in 1..MaxUploads }

\* `ext in [".jpg", ".jpeg", ".png", ".webp"]`
IsImageFile(path) == path.ext \in {"jpg", "jpeg", "png", "webp"}

\* `ext in [".mp4", ".mov", ".mkv", ".avi", ".webm"]`
IsVideoFile(path) == path.ext \in {"mp4", "mov", "mkv", "avi", "webm"}

\* compress_video: `proc.returncode == 0 and os.path.exists(output_path)`
compress_video(returncode, exists) == returncode = 0 /\ exists

\* the compressed file replaces the video whatever its size
replaces_unmeasured(success, compressed_size) == success

\* `if success and os.path.getsize(compressed_path) < MAX_TG_FILE_SIZE`
replaces(success, compressed_size) ==
    success /\ compressed_size < MAX_TG_FILE_SIZE

\* the place of the next image or video at or behind k, or one past the end
RECURSIVE NextMedia(_, _)
NextMedia(paths, k) ==
    IF k > Len(paths) THEN k
    ELSE IF IsImageFile(paths[k]) \/ IsVideoFile(paths[k]) THEN k
    ELSE NextMedia(paths, k + 1)

NoFile == [compressed |-> FALSE, size |-> 0]

UpInit ==
    /\ up_pc = "idle"
    /\ up_in = << >>
    /\ up_k = 0
    /\ up_cur = NoFile
    /\ up_log = << >>

\* the loop from place k up to its next await: answer_photo for an image,
\* the status edit before the compression for a video above the ceiling,
\* answer_video for any other video; a file that is neither is passed over
UpLoop(paths, k) ==
    LET j == NextMedia(paths, k)
    IN /\ up_k' = j
       /\ IF j > Len(paths)
            THEN up_pc' = "done" /\ up_cur' = NoFile
          ELSE IF IsImageFile(paths[j])
            THEN up_pc' = "photo" /\ up_cur' = NoFile
          ELSE IF paths[j].size > MAX_TG_FILE_SIZE
            THEN up_pc' = "editing" /\ up_cur' = NoFile
          ELSE /\ up_pc' = "video"
               /\ up_cur' = [compressed |-> FALSE, size |-> paths[j].size]

\* download_from_url returned success with these paths and the upload
\* status has been shown
UpCall(paths) ==
    /\ up_pc = "idle"
    /\ up_in' = paths
    /\ UpLoop(paths, 1)
    /\ UNCHANGED up_log
    /\ UNCHANGED not_up

Said(event, size) == [idx |-> up_k, event |-> event, size |-> size]

\* answer_photo returns or raises; the except logs and the loop goes on
UpPhotoSent(raised) ==
    /\ up_pc = "photo"
    /\ up_log' = Append(up_log, Said(IF raised THEN "failed" ELSE "photo",
                                     up_in[up_k].size))
    /\ UpLoop(up_in, up_k + 1)
    /\ UNCHANGED up_in
    /\ UNCHANGED not_up

\* the status edit before the compression returns and compress_video is
\* awaited, or it raises and the exception leaves the loop
UpEdited(raised) ==
    /\ up_pc = "editing"
    /\ up_pc' = IF raised THEN "escaped" ELSE "compressing"
    /\ UNCHANGED <<up_in, up_k, up_cur, up_log>>
    /\ UNCHANGED not_up

\* compress_video returns, or raises when ffmpeg cannot be started.  The
\* compressed file becomes file_path and answer_video is awaited, or the
\* too-large notice is
UpCompressed(raised, returncode, exists, compressed_size) ==
    /\ up_pc = "compressing"
    /\ exists \/ compressed_size = 0
    /\ IF raised
          THEN up_pc' = "escaped" /\ UNCHANGED up_cur
          ELSE LET success == compress_video(returncode, exists)
               IN IF replaces(success, compressed_size)
                    THEN /\ up_pc' = "video"
                         /\ up_cur' = [compressed |-> TRUE,
                                       size |-> compressed_size]
                    ELSE /\ up_pc' = "notice"
                         /\ up_cur' = [compressed |-> success,
                                       size |-> compressed_size]
    /\ UNCHANGED <<up_in, up_k, up_log>>
    /\ UNCHANGED not_up

\* the too-large notice is sent and the loop continues, or message.answer
\* raises and the exception leaves the loop
UpNoticed(raised) ==
    /\ up_pc = "notice"
    /\ IF raised
          THEN /\ up_pc' = "escaped"
               /\ UNCHANGED <<up_k, up_cur, up_log>>
          ELSE /\ up_log' = Append(up_log, Said("notice", up_cur.size))
               /\ UpLoop(up_in, up_k + 1)
    /\ UNCHANGED up_in
    /\ UNCHANGED not_up

\* answer_video returns, or raises and the except answers the failure; an
\* exception of that answer leaves the loop
UpVideoSent(raised, answer_raised) ==
    /\ up_pc = "video"
    /\ up_log' = Append(up_log,
                        Said(IF raised THEN "failed"
                             ELSE IF up_cur.compressed THEN "compressed"
                             ELSE "video", up_cur.size))
    /\ IF raised /\ answer_raised
          THEN up_pc' = "escaped" /\ UNCHANGED <<up_k, up_cur>>
          ELSE UpLoop(up_in, up_k + 1)
    /\ UNCHANGED up_in
    /\ UNCHANGED not_up

UpNext ==
    \/ \E paths \in UploadPaths : UpCall(paths)
    \/ \E raised \in BOOLEAN : UpPhotoSent(raised)
    \/ \E raised \in BOOLEAN : UpEdited(raised)
    \/ \E raised \in BOOLEAN, returncode \in {0, 1}, exists \in BOOLEAN,
          compressed_size \in UploadSizes \cup {0} :
          UpCompressed(raised, returncode, exists, compressed_size)
    \/ \E raised \in BOOLEAN : UpNoticed(raised)
    \/ \E raised \in BOOLEAN, answer_raised \in BOOLEAN :
          UpVideoSent(raised, answer_raised)

(***************************************************************************)
(* Composition                                                             *)
(***************************************************************************)

Init == DlInit /\ IgInit /\ IdInit /\ RlInit /\ PrInit /\ CvInit /\ DpInit
        /\ CqInit /\ YtInit /\ WnInit /\ UpInit

Next == DlNext \/ IgNext \/ IdNext \/ RlNext \/ PrNext \/ CvNext \/ DpNext
        \/ CqNext \/ YtNext \/ WnNext \/ UpNext

Spec == Init /\ [][Next]_vars

\* one download call and the processes it starts
SpecDownload == Init /\ [][DlNext]_vars

\* what the event loop guarantees to a download call: a sleep returns, the
\* deadline of asyncio.wait_for expires unless the awaited process ended
\* first, and the cache purge of tiktok_download.py ends or is killed at its
\* 120 s deadline.  The cache purge of downloader.py is awaited without a
\* deadline and ends only when its process does.
DlFairness ==
    /\ WF_vars(EnhWake)
    /\ WF_vars(EnhTimeout)
    /\ WF_vars(ModWake)
    /\ WF_vars(ModTimeout)
    /\ WF_vars(ModPaused)
    /\ WF_vars(\E ok \in BOOLEAN : ModPurged(ok))

SpecDownloadFair == Init /\ [][DlNext]_vars /\ DlFairness

\* concurrent download_instagram calls sharing the session singleton
SpecSession == Init /\ [][IgNext]_vars

\* one identify_audio call
SpecIdentify == Init /\ [][IdNext]_vars

\* the handlers of concurrent updates sharing the rate limiter
SpecRate == Init /\ [][RlNext]_vars

\* one check_video_size call
SpecProbe == Init /\ [][PrNext]_vars

\* one download_from_url call on an Instagram url, from the handler's answer
SpecConvert == Init /\ [][CvNext]_vars

\* one detect_platform call
SpecDetect == Init /\ [][DpNext]_vars

\* _clean_query applied to a text and then to its own result
SpecClean == Init /\ [][CqNext]_vars

\* two runs of handle_link_download on a yt-dlp platform, alike but for the
\* stderr text of the downloader
SpecClassify == Init /\ [][YtNext]_vars

\* is_allowed calls of the users at non-decreasing times
SpecWindow == Init /\ [][WnNext]_vars

\* the upload loop of one handle_link_download call
SpecUpload == Init /\ [][UpNext]_vars

(***************************************************************************)
(* Properties of the multi-strategy download loops                         *)
(***************************************************************************)

NonDecreasing(seq) ==
    \A a, b \in DOMAIN seq : a <= b => seq[a] <= seq[b]

\* C1: strategies are invoked in declared order, none twice and none
\* skipped; no strategy is invoked after one succeeded; a success after k
\* failures means exactly k + 1 invocations and a result whose method is
\* strategy k + 1's; the backoff waits never decrease.
C1_StrategiesInOrder ==
    /\ \A k \in DOMAIN attempts : attempts[k] = k
    /\ Len(outcome) <= Len(attempts)
    /\ \A k \in DOMAIN outcome :
          outcome[k] = "ok" => (k = Len(attempts) /\ dl_pc = "done")
    /\ (dl_result.returned /\ dl_result.success) =>
          /\ Len(outcome) = Len(attempts)
          /\ outcome[Len(attempts)] = "ok"
          /\ \A k \in 1..(Len(attempts) - 1) : outcome[k] # "ok"
          /\ dl_result.method = MethodName(dl_impl, Len(attempts))
    /\ NonDecreasing(waits)
    \* one wait between two consecutive invocations
    /\ Len(attempts) - 1 <= Len(waits)
    /\ Len(waits) <= Len(outcome)

\* two strategies failed, the third produced files
C1_Witness ==
    /\ dl_impl = "enhanced" /\ dl_pc = "done"
    /\ dl_result.success
    /\ outcome = <<"failed", "timeout", "ok">>
    /\ dl_result.method = "API v3 (US East 2)"
    /\ waits = <<3, 6>>

\* C2: when every strategy failed, the failure carries the error of the last
\* strategy of the list, never an earlier strategy's and never none.
C2_LastStrategyError ==
    (dl_pc = "done" /\ ~dl_result.success) =>
        /\ dl_result.error.kind # "None"
        /\ dl_result.error.idx = NumStrategies(dl_impl)

\* C4: a process that exceeded its deadline is not running once the loop
\* has recorded the timeout and moved on or returned.
C4_TimedOutProcessTerminated ==
    \A j \in DOMAIN outcome : outcome[j] = "timeout" => proc[j] # "running"

(***************************************************************************)
(* Properties of the Instagram session                                     *)
(***************************************************************************)

\* C3: however many requests need a fresh session, client.login is invoked
\* at most once in total.
C3_LoginAtMostOnce == login_calls <= 1

\* C14: the first construction with credentials follows the session state
\* machine.  A stored blob that passes the liveness call authenticates with
\* no login; a stored blob that fails it is discarded and one login is made;
\* with no blob one login is made; a login that succeeds is followed by the
\* blob being persisted, the session is authenticated, no other login is ever
\* made and the request that built the session goes on to its download.
C14_SessionStateMachine ==
    (first_use.made /\ creds = "present") =>
        /\ first_use.live =>
              /\ first_use.logins = 0 /\ first_use.auth /\ ~first_use.raised
              /\ login_calls = 0
        /\ ~first_use.live =>
              /\ first_use.logins = 1
              /\ first_use.login # "ok" => ~first_use.persisted
              /\ (first_use.login = "ok" /\ ~first_use.raised) =>
                    /\ first_use.auth /\ first_use.persisted
                    /\ login_calls = 1
        /\ ~first_use.raised =>
              /\ singleton = Downloader(TRUE)
              /\ session_file
              /\ rq[first_use.by].pc \in {"executor", "done"}
              /\ ~(rq[first_use.by].result.raised
                     /\ rq[first_use.by].met = "none")

\* no blob was stored, one login was made, the blob is on disk and the
\* request's single item was downloaded
C14_Witness ==
    /\ first_use.made /\ ~first_use.blob /\ first_use.login = "ok"
    /\ login_log = <<"ok">>
    /\ session_file
    /\ rq[first_use.by].pc = "done"
    /\ rq[first_use.by].result.success
    /\ rq[first_use.by].result.paths = 1

\* C15: a login that failed with a challenge or with bad credentials is the
\* last login made.
C15_TerminalLoginFailureNotRetried ==
    \A k \in DOMAIN login_log :
        login_log[k] \in {"challenge", "login_required"} => k = Len(login_log)

\* C16: a request whose content handler met privacy-restricted content ends
\* with success false, no paths and the follow-the-account text, raises
\* nothing, and has invoked download_content once.
C16_PrivateContentResult ==
    \A r \in Requests :
        rq[r].met = "private" =>
            /\ rq[r].pc = "done"
            /\ rq[r].attempts = 1
            /\ rq[r].result = [raised |-> FALSE, success |-> FALSE,
                               paths |-> 0, error |-> PrivateAccountText]

\* a reel and a story both met private content
C16_Witness ==
    \E r1, r2 \in Requests :
        /\ rq[r1].kind = "reel" /\ rq[r1].met = "private"
        /\ rq[r2].kind = "story" /\ rq[r2].met = "private"
        /\ rq[r1].pc = "done" /\ rq[r2].pc = "done"

(***************************************************************************)
(* Properties of the identification chain                                  *)
(***************************************************************************)

Called(step) == \E k \in DOMAIN id_trace : id_trace[k] = step

\* C5: with no accepted fingerprint match and no usable answer of the
\* secondary API (nothing found, request failed, not configured), the result
\* is the catalog search's text.
C5_FallsThroughToCatalogSearch ==
    (/\ id_pc = "done"
     /\ id_st.branch \in {"nores", "low"}
     /\ id_st.audd \in {"nomatch", "error", "notconfigured"})
        => id_result.kind = "spotify"

\* C6: an accepted fingerprint match whose recording lookup failed is
\* returned with the raw fingerprint artist and title and the link built from
\* the recording id.
C6_LookupFailureDegradesToRaw ==
    (/\ id_pc = "done"
     /\ id_st.top # NoCandidate
     /\ ~LowConfidence(id_st.top.score)
     /\ id_st.lookup = "raises")
        => id_result = [kind |-> "fingerprint",
                        text |-> FingerprintText(id_st.top.artist,
                                                 id_st.top.title,
                                                 id_st.top.rid)]

\* C7: no exception leaves identify_audio, and it ends within five external
\* steps with a non-empty text.
C7_NeverRaises ==
    /\ id_pc # "raised"
    /\ Len(id_trace) <= 5
    /\ id_pc = "done" => id_result.text # << >>

\* the lookup raised and, in the handler, the catalog search failed too
C7_Witness ==
    /\ id_pc = "done"
    /\ id_st.lookup = "raises"
    /\ id_result = [kind |-> "crash",
                    text |-> CrashPrefix \o SpotifyErrorPrefix \o ExcText]

\* C8: a first candidate with score 0.30 or more passes the gate: the
\* secondary API is never called, the catalog search is not called before the
\* recording lookup has ended, the result is never an answer of the fallback
\* chain, and it is the fingerprint match whenever the lookup returns.  A
\* score below 0.30 goes to the secondary API, the lookup is never made and
\* the result is never a fingerprint match.
C8_GateInclusive ==
    id_st.top # NoCandidate =>
        IF id_st.top.score >= Threshold
          THEN /\ ~Called("audd")
               /\ id_pc # "audd"
               /\ Called("spotify") => id_st.lookup = "raises"
               /\ id_result.kind \notin {"audd", "spotify"}
               /\ (id_pc = "done" /\ id_st.lookup # "raises")
                     => id_result.kind = "fingerprint"
          ELSE /\ id_pc = "audd" \/ Called("audd")
               /\ ~Called("lookup")
               /\ id_pc # "lookup"
               /\ id_result.kind # "fingerprint"

\* a candidate with score exactly 0.30 was returned as the match
C8_Witness ==
    /\ id_pc = "done"
    /\ id_st.top.score = Threshold
    /\ id_st.top.rid = Abc123
    /\ id_result = [kind |-> "fingerprint",
                    text |-> FingerprintText(ArtistX, TitleY, Abc123)]

(***************************************************************************)
(* Properties of the rate limiter and its handlers                         *)
(***************************************************************************)

\* C9: a request of a user with 10 allowed requests inside the current
\* 60-second window is rejected and the wait then reported is strictly
\* positive; with fewer inside the window, so once it has elapsed, the
\* request is allowed.
C9_EleventhRejectedWithPositiveWait ==
    verdict.called =>
        /\ verdict.allowed <=> verdict.recent < max_requests
        /\ ~verdict.allowed => verdict.wait > 0

\* C10: every handler that has started a download consulted is_allowed
\* before, and was answered yes.
C10_LimiterBeforeEveryDownload ==
    \A s \in Slots : hq[s].pc = "downloading" => hq[s].limiter = "allowed"

\* C11: a handler that has returned has left no directory of its own on
\* disk.
C11_WorkingDirectoriesRemoved == left_behind = {}

\* C12: a link handler whose size probe failed has invoked the download.
C12_ProbeFailsOpen ==
    \A s \in Slots : hq[s].probe = "failed" => hq[s].downloaded

\* the probe failed and download_from_url is being awaited
C12_Witness ==
    \E s \in Slots :
        /\ hq[s].handler = "link"
        /\ hq[s].probe = "failed"
        /\ hq[s].pc = "downloading"

(***************************************************************************)
(* Properties of the size probe                                            *)
(***************************************************************************)

\* the sizes of the formats that are positive and under the ceiling
Fitting(formats) ==
    { SizeOf(formats[k]) : k \in { j \in DOMAIN formats :
                                     UnderCeiling(SizeOf(formats[j])) } }

\* C13: when the probe has listed the formats, it returns the format with
\* the largest size (filesize, else filesize_approx) among those positive and
\* under the ceiling, and refuses only when no format has such a size.
C13_LargestFormatUnderCeiling ==
    (pr_pc = "done" /\ pr_in.platform # "instagram" /\ ~pr_in.raised) =>
        IF Fitting(pr_in.formats) = {}
          THEN ~pr_out.can_download
          ELSE /\ pr_out.can_download
               /\ \A size \in Fitting(pr_in.formats) : size <= pr_out.size_mb

(***************************************************************************)
(* Properties of the audio-only conversion                                 *)
(***************************************************************************)

Videos(paths) == SelectSeq(paths, IsVideo)

IsPrefix(p, q) == Len(p) <= Len(q) /\ SubSeq(q, 1, Len(p)) = p

\* C17: the paths handed to extract_audio_mp3 are the videos of the
\* handler's result, each once and in order; an audio-only call on a
\* successful result returns exactly their audio paths in that order; any
\* other call extracts nothing and returns the paths unchanged.
C17_VideosReplacedByAudio ==
    /\ IsPrefix(cv_log, Videos(cv_in.paths))
    /\ cv_log # << >> => cv_in.audio_only /\ cv_in.success
    /\ cv_pc = "done" =>
          IF cv_in.audio_only /\ cv_in.success
            THEN /\ cv_log = Videos(cv_in.paths)
                 /\ Len(cv_out) = Len(cv_log)
                 /\ \A k \in DOMAIN cv_out : cv_out[k] = AudioPath(cv_log[k])
            ELSE /\ cv_log = << >>
                 /\ cv_out = cv_in.paths

\* two videos became two audio files, in order
C17_Witness ==
    /\ cv_pc = "done"
    /\ cv_in.audio_only /\ cv_in.success
    /\ cv_in.paths = <<[stem |-> "b", ext |-> "mp4"], [stem |-> "a", ext |-> "mov"]>>
    /\ cv_out = <<[stem |-> "b", ext |-> "mp3"], [stem |-> "a", ext |-> "mp3"]>>

(***************************************************************************)
(* Properties of the platform detection                                    *)
(***************************************************************************)

\* C18: a url on a platform's host is tagged with that platform whatever its
\* scheme, letter case, path and query string, another platform's fragment
\* in the query string included; a url on no platform's host is tagged with
\* the platform whose fragment the rest of it holds, and "other" when it
\* holds none.
C18_TagOfThePlatform ==
    dp_pc = "done" =>
        dp_out = IF dp_in.host.tag # "other" THEN dp_in.host.tag
                 ELSE dp_in.tail.tag

(***************************************************************************)
(* Properties of the catalog-query cleaning                                *)
(***************************************************************************)

\* C19: cleaning is idempotent: _clean_query of a cleaned text is that
\* cleaned text.
C19_CleanQueryIdempotent == cq_pc = "twice" => cq_twice = cq_once

(***************************************************************************)
(* The query of the catalog search                                         *)
(***************************************************************************)

\* C20: whenever identify_audio is about to fall back to the catalog search
\* (no candidates, low confidence, or the outer except), the query is the
\* hint when there is one and the name of the file otherwise.
C20_FallbackQueryIsHintOrFileName ==
    id_pc = "spotify" => id_st.query = HintOrBasename(id_in)

(***************************************************************************)
(* Properties of the failure classification                                *)
(***************************************************************************)

\* C21: two runs that differ only in the wording of the downloader's error
\* make the same control actions in the same order and end the same way for
\* the caller; only the text shown may differ.
C21_ClassificationIsAdvisory ==
    (\A r \in YtRuns : yt_pc[r] = "done") =>
        /\ yt_trace[1] = yt_trace[2]
        /\ yt_out[1].raised = yt_out[2].raised
        /\ yt_out[1].success = yt_out[2].success
        /\ yt_out[1].npaths = yt_out[2].npaths
        /\ yt_escaped[1] = yt_escaped[2]

\* two failed runs were told different things
C21_Witness ==
    /\ \A r \in YtRuns : yt_pc[r] = "done" /\ yt_out[r].raised
    /\ yt_shown[1].kind = "bot"
    /\ yt_shown[2].kind = "notfound"

\* C22: a failure is shown under the guidance of its cause: bot detection
\* as run_yt_dlp classifies it under the bot-detection guidance, access
\* forbidden under the forbidden guidance, private content under the private
\* guidance.
C22_GuidanceOfTheCause ==
    \A r \in YtRuns :
        (/\ yt_pc[r] = "done"
         /\ yt_in.platform # "tiktok"
         /\ yt_in.ended = "nonzero") =>
            LET class == run_class(CommandFailedPrefix \o yt_in.stderr[r])
            IN /\ class = "bot" /\ yt_in.cause[r] # "private"
                    => yt_shown[r].kind = "bot"
               /\ class = "forbidden" => yt_shown[r].kind = "forbidden"
               /\ yt_in.cause[r] = "private" => yt_shown[r].kind = "private"

\* C23: when the first strategy leaves one file, the result has
\* success=true, one path, and the name of the platform's first strategy as
\* its method.
C23_FirstStrategyResult ==
    \A r \in YtRuns :
        (/\ yt_pc[r] \notin {"idle", "downloading"}
         /\ yt_in.ended = "onefile") =>
            /\ ~yt_out[r].raised
            /\ yt_out[r].success
            /\ yt_out[r].npaths = 1
            /\ yt_out[r].method # "absent"
            /\ yt_in.platform = "tiktok"
                    => yt_out[r].method = strategies[1].name

(***************************************************************************)
(* Further properties of the identification chain                          *)
(***************************************************************************)

\* C24: _convert_to_wav never raises: it returns the normalized audio or,
\* when the transcoder fails, the original path, and fingerprinting follows
\* on the path it returned.
C24_NormalizationNeverBlocks ==
    Len(id_trace) >= 1 =>
        /\ id_st.prepared \in {"wav", "src"}
        /\ Len(id_trace) = 1 => id_pc = "match"

\* C25: without catalog credentials search_spotify answers every query
\* with the "not configured" text, raises nothing and never calls
\* spotify.search.
C25_NotConfiguredWithoutCredentials ==
    (~id_in.spotify /\ Called("spotify")) =>
        /\ id_pc = "done"
        /\ id_st.searches = 0
        /\ id_result.text = IF id_st.branch = "crash"
                              THEN CrashPrefix \o SpotifyNotConfigured
                              ELSE SpotifyNotConfigured

\* the hint "21 Savage redrum" was the query and no credentials were set
C25_Witness ==
    /\ id_pc = "done"
    /\ ~id_in.spotify
    /\ id_in.hint = HintText
    /\ id_st.query = HintText
    /\ id_result = [kind |-> "spotify", text |-> SpotifyNotConfigured]

Count(step) == Cardinality({k \in DOMAIN id_trace : id_trace[k] = step})

FingerprintAccepted == id_st.top # NoCandidate /\ ~LowConfidence(id_st.top.score)

\* C26: the secondary API is called only after fingerprinting gave no
\* candidate or a top score below the threshold; the catalog search only
\* after the secondary API was tried and not accepted, or after an
\* exception; nothing is called after an accepted outcome; no service is
\* called twice.
C26_ShortCircuitOrder ==
    /\ \A k \in DOMAIN id_trace :
          id_trace[k] = "audd" =>
              /\ k > 1 /\ id_trace[k - 1] = "match"
              /\ ~FingerprintAccepted
    /\ \A k \in DOMAIN id_trace :
          id_trace[k] = "spotify" =>
              \/ k > 1 /\ id_trace[k - 1] = "audd" /\ id_result.kind # "audd"
              \/ id_st.branch = "crash"
    /\ FingerprintAccepted => ~Called("audd") /\ ~Called("spotify")
    /\ id_result.kind = "audd" => ~Called("spotify")
    /\ \A step \in {"convert", "match", "audd", "lookup", "spotify"} :
          Count(step) <= 1
    /\ id_st.searches <= 1

(***************************************************************************)
(* Further properties of the multi-strategy download loops                 *)
(***************************************************************************)

\* C27: the paths of a successful result are non-hidden files written by the
\* strategy that succeeded, and that strategy wrote at least one of them.
C27_OnlyFilesOfTheSucceedingStrategy ==
    (dl_result.returned /\ dl_result.success) =>
        /\ \A f \in dl_result.paths : ~f.hidden /\ f.by = Len(attempts)
        /\ \E f \in dl_result.paths : f.by = Len(attempts)

NotSucceededBeforeLast ==
    {k \in DOMAIN outcome : outcome[k] # "ok" /\ k < NumStrategies("enhanced")}

\* C28: in run_yt_dlp_tiktok_enhanced the i-th strategy that did not succeed
\* is followed by a wait of i * 3 seconds before strategy i + 1 unless it
\* was the last; the cache purge runs once, between strategies 2 and 3, and
\* strategy 3 follows whether the purge worked or not.
C28_BackoffAndPurge ==
    /\ [](dl_impl = "enhanced" =>
            /\ \A k \in DOMAIN waits : waits[k] = k * 3
            /\ Len(waits) = Cardinality(NotSucceededBeforeLast)
            /\ Len(attempts) <= Len(waits) + 1
            /\ dl_pc = "sleeping" => Len(attempts) = Len(waits)
            /\ purges = IF dl_pc = "purging" \/ Len(attempts) >= 3
                          THEN 1 ELSE 0
            /\ dl_pc = "purging" =>
                  /\ attempts = <<1, 2>>
                  /\ Len(outcome) = 2 /\ Len(waits) = 2)
    /\ [][(dl_impl = "enhanced" /\ dl_pc = "purging" /\ dl_pc' # "purging") =>
            (dl_pc' = "running" /\ attempts' = <<1, 2, 3>>)]_vars

\* the fourth strategy failed after three waits and one purge
C28_Witness ==
    /\ dl_impl = "enhanced" /\ dl_pc = "done"
    /\ ~dl_result.success
    /\ attempts = <<1, 2, 3, 4>>
    /\ waits = <<3, 6, 9>>
    /\ purges = 1

\* C30: no strategy returns success for an attempt whose downloader process
\* exited with a non-zero code.
C30_NonZeroExitIsFailure ==
    (dl_result.returned /\ dl_result.success) =>
        proc[Len(attempts)] = "exit0"

\* C29: every multi-strategy call ends: each strategy is attempted at most
\* once, in one pass over the list, nothing is attempted after the call has
\* returned or failed, and a call that has started reaches its end.
C29_CallTerminates ==
    /\ [](/\ Len(attempts) <= NumStrategies(dl_impl)
          /\ \A k \in DOMAIN attempts : attempts[k] = k)
    /\ [][dl_pc = "done" => (dl_pc' = "done" /\ attempts' = attempts)]_vars
    /\ (dl_pc # "idle") ~> (dl_pc = "done")


(***************************************************************************)
(* Properties of the limiter under concurrent handlers                     *)
(***************************************************************************)

\* C31: whatever the interleaving of the handler coroutines of one user, the
\* limiter loses no update: the step in which a handler is answered prunes,
\* tests and appends at once, so a request is allowed only while fewer than
\* 10 requests are inside the window and is then recorded behind them, a
\* rejected one records nothing, and the list never holds more than 10.
C31_NoLostUpdate ==
    /\ [](\A u \in Users : Len(requests[u]) <= max_requests)
    /\ [][\A s \in Slots :
            (hq[s] = NoRequest /\ hq'[s].limiter # "none") =>
                \E u \in Users :
                    LET inside == Recent(requests[u], now)
                    IN IF hq'[s].limiter = "allowed"
                         THEN /\ Len(inside) < max_requests
                              /\ requests'[u] = Append(inside, now)
                         ELSE /\ Len(inside) >= max_requests
                              /\ requests'[u] = inside]_vars

\* two handlers of one user are in flight; one took the last free place of
\* the window and the other was rejected
C31_Witness ==
    \E s, q \in Slots, u \in Users :
        /\ hq[s].limiter = "allowed"
        /\ hq[s].pc # "answering"
        /\ hq[q].limiter = "rejected"
        /\ Len(requests[u]) = max_requests


(***************************************************************************)
(* Properties of the Instagram session after its construction              *)
(***************************************************************************)

\* C32: the session re-authenticates lazily: once a download on the
\* established session has failed because login is required, a request that
\* asks for the downloader afterwards performs a login.
C32_ReauthenticatesAfterLoginRequired ==
    [][\A q \in Requests :
         ( /\ rq[q].pc = "called" /\ rq'[q].pc # "called"
           /\ singleton.is_authenticated
           /\ \E r \in Requests :
                 rq[r].pc = "done" /\ rq[r].met = "login_required" )
           => login_calls' = login_calls + 1]_vars

\* C33: a story is fetched only after it was found among the owner's
\* stories: a request whose story was not found made no story_download call
\* and ended with success false, no paths and the error's text, raising
\* nothing.
C33_StoryFetchedOnlyWhenFound ==
    \A r \in Requests :
        rq[r].met = "notfound" =>
            /\ rq[r].kind = "story"
            /\ ~rq[r].fetched
            /\ rq[r].pc = "done"
            /\ rq[r].result = [raised |-> FALSE, success |-> FALSE,
                               paths |-> 0, error |-> OtherErrorText]

\* one story was not found and another one was found and fetched
C33_Witness ==
    \E r1, r2 \in Requests :
        /\ rq[r1].kind = "story" /\ rq[r1].met = "notfound"
        /\ rq[r2].kind = "story" /\ rq[r2].met = "ok" /\ rq[r2].fetched
        /\ rq[r2].result.success

\* C38: an authenticated session has its blob on disk, and a construction
\* whose stored blob failed the liveness call and whose login failed leaves
\* no session authenticated and no blob on disk.
C38_AuthenticatedImpliesBlob ==
    /\ [](singleton.is_authenticated => session_file)
    /\ [][( /\ login_calls' = login_calls + 1
            /\ session_file
            /\ login_log'[Len(login_log')] # "ok" )
            => (~singleton'.is_authenticated /\ ~session_file')]_vars

\* the stored blob failed the liveness call and the login failed; a later
\* request logged in, and the session is authenticated with its blob on disk
C38_Witness ==
    /\ first_use.blob /\ ~first_use.live
    /\ first_use.login \in {"challenge", "login_required", "error"}
    /\ ~first_use.persisted
    /\ Len(login_log) = 2 /\ login_log[2] = "ok"
    /\ singleton.is_authenticated
    /\ session_file

\* C39: no post, reel or story handler is called while the session is not
\* authenticated.
C39_NoHandlerWithoutAuthentication ==
    \A r \in Requests :
        rq[r].met \notin {"none", "makedirs"} => singleton.is_authenticated


(***************************************************************************)
(* Properties of the candidate taken from the fingerprint answer           *)
(***************************************************************************)

C35_SlidingWindow ==
    /\ [](\A u \in Users :
            /\ Len(wn_requests[u]) <= max_requests
            /\ \A a, b \in DOMAIN wn_log[u] :
                  (a <= b /\ wn_log[u][b] - wn_log[u][a] < WindowTicks)
                      => b - a + 1 <= max_requests)
    /\ [][\A u \in Users :
            (wn_calls'[u] = wn_calls[u] + 1 /\ ~wn_last'.allowed) =>
                /\ wn_log'[u] = wn_log[u]
                /\ wn_requests'[u] = Recent(wn_requests[u], wn_now)
                /\ time_until_allowed(wn_requests'[u], wn_now)
                     = time_until_allowed(Recent(wn_requests[u], wn_now),
                                          wn_now)]_vars

\* ten requests were allowed, a call was rejected, and the eleventh allowed
\* request came a full window after the first
C35_Witness ==
    \E u \in Users :
        /\ Len(wn_log[u]) = max_requests + 1
        /\ wn_log[u][max_requests + 1] - wn_log[u][1] = WindowTicks
        /\ wn_calls[u] > Len(wn_log[u])
        /\ wn_adv >= 2


(***************************************************************************)
(* Properties of the result download_from_url returns                      *)
(***************************************************************************)

\* C36: a result with success true carries at least one file path: when the
\* handler's successful result held at least one file, so does the result
\* download_from_url returns, the audio-only replacement included.
C36_SuccessCarriesAPath ==
    (cv_pc = "done" /\ cv_in.success /\ cv_in.paths # << >>)
        => cv_out # << >>


(***************************************************************************)
(* Properties of the upload loop                                           *)
(***************************************************************************)

Entries(k) == { n \in DOMAIN up_log : up_log[n].idx = k }

\* C37: no video larger than the ceiling is sent.  A video above the
\* ceiling is sent only as its compressed replacement, of a size strictly
\* under the ceiling; the too-large notice is said only of a video above the
\* ceiling whose compression reported no success or left a file not under
\* the ceiling; and a loop that no exception left has sent each video or
\* said why not, the files behind a skipped one included.
C37_NoVideoAboveCeiling ==
    /\ \A n \in DOMAIN up_log :
          LET e == up_log[n]
              file == up_in[e.idx]
          IN /\ e.event \in {"video", "compressed"} =>
                    /\ IsVideoFile(file)
                    /\ e.size <= MAX_TG_FILE_SIZE
             /\ e.event = "video" =>
                    e.size = file.size
             /\ e.event = "compressed" =>
                    /\ file.size > MAX_TG_FILE_SIZE
                    /\ e.size < MAX_TG_FILE_SIZE
             /\ e.event = "notice" =>
                    /\ IsVideoFile(file)
                    /\ file.size > MAX_TG_FILE_SIZE
    /\ (up_pc = "notice" /\ up_cur.compressed) =>
          up_cur.size >= MAX_TG_FILE_SIZE
    /\ up_pc = "done" =>
          \A k \in DOMAIN up_in :
              IsVideoFile(up_in[k]) => Cardinality(Entries(k)) = 1

\* the first video was above the ceiling and so was its compressed file: the
\* notice was sent; the second was above it too and was sent compressed
C37_Witness ==
    /\ up_pc = "done"
    /\ Len(up_in) = 2
    /\ up_in[1].size > MAX_TG_FILE_SIZE /\ up_in[2].size > MAX_TG_FILE_SIZE
    /\ Len(up_log) = 2
    /\ up_log[1].event = "notice" /\ up_log[1].size > MAX_TG_FILE_SIZE
    /\ up_log[2].event = "compressed"

====
